---- MODULE Spec2Model ----
(***************************************************************************)
(* Model of the credential core of the attendance application:            *)
(* UserManager (src/auth.py) running against the users collection of the  *)
(* document database.  One action per public UserManager method; every    *)
(* action is the whole method, store writes included.  Each method is an  *)
(* operator from the collection, the time of the call and the arguments   *)
(* to the collection it leaves, the value it returns and the store calls  *)
(* it made; the action of the method applies that operator to the state.  *)
(* The collection starts with one account registered earlier through      *)
(* create_user.  In Spec every call runs from start to end before the     *)
(* next; the specifications of concurrent calls further down split a      *)
(* method at its store accesses.                                          *)
(*                                                                         *)
(* Time is counted in minutes.  datetime.now() and datetime.utcnow()      *)
(* differ by a constant offset; lockout times are only ever compared with *)
(* now() and token times only with utcnow(), so one clock serves both.    *)
(***************************************************************************)
EXTENDS Integers, Sequences, FiniteSets, Bags, TLC

(* ------------------------------ bounds -------------------------------- *)
MaxTime == 2        \* the clock runs 0..MaxTime
MaxTokens == 2      \* reset tokens generated in one behaviour
MaxCalls == 5       \* concurrent calls started in one behaviour
MaxDocs == 2        \* documents in the sessions file

(* ------------------- configuration (src/auth.py:21-24) ----------------- *)
\* The four settings are read from the environment.  The model runs the
\* configuration TOKEN_EXPIRY_MINUTES=1, MAX_LOGIN_ATTEMPTS=3,
\* LOCKOUT_DURATION_MINUTES=2 with the default PASSWORD_MIN_LENGTH.
TOKEN_EXPIRY_MINUTES == 1
MAX_LOGIN_ATTEMPTS == 3
LOCKOUT_DURATION_MINUTES == 2
PASSWORD_MIN_LENGTH == 8

\* Python's None in a numeric or timestamp field, and as a password argument.
None == -1
PwNone == <<"None">>

(* ----------------------------- characters ------------------------------ *)
\* Strings the code inspects character by character are sequences of
\* one-character strings.
LowerChars == {"a", "b", "e", "g", "h", "i", "l", "n", "o", "r", "s", "t", "w", "x"}
UpperChars == {"N", "P", "S"}
DigitChars == {"0", "1"}
PwSymbolChars == {"@", "$", "!", "%", "*", "?", "&"}

(* --------------------------- Credential hasher -------------------------- *)
\* hash_password: a digest that names its scheme and is bound to the
\* plaintext (the random salt is not modelled).
hash_password(password) == [scheme |-> "bcrypt", of |-> password]

\* verify_password with bcrypt available: true exactly for a bcrypt digest
\* of the same plaintext.
verify_password(password, password_hash) ==
    password_hash.scheme = "bcrypt" /\ password_hash.of = password

(* --------------------------- validation rules --------------------------- *)
SeqAll(s, S) == \A i \in 1..Len(s) : s[i] \in S
SeqSome(s, S) == \E i \in 1..Len(s) : s[i] \in S

\* PASSWORD_REGEX: four lookaheads, then only allowed characters, at least
\* PASSWORD_MIN_LENGTH of them.
PASSWORD_REGEX(password) ==
    /\ SeqSome(password, LowerChars)
    /\ SeqSome(password, UpperChars)
    /\ SeqSome(password, DigitChars)
    /\ SeqSome(password, PwSymbolChars)
    /\ SeqAll(password, LowerChars \cup UpperChars \cup DigitChars \cup PwSymbolChars)
    /\ Len(password) >= PASSWORD_MIN_LENGTH

\* validate_password: "" when the password is acceptable, else the reason.
validate_password(password) ==
    IF password = <<>> \/ password = PwNone THEN "Password cannot be empty"
    ELSE IF Len(password) < PASSWORD_MIN_LENGTH THEN "Password must be at least 8 characters"
    ELSE IF ~PASSWORD_REGEX(password) THEN "Password must contain at least one uppercase letter, one lowercase letter, one number, and one special character"
    ELSE ""

\* validate_email: ^[a-zA-Z0-9._%+-]+@[a-zA-Z0-9.-]+\.[a-zA-Z]{2,}$
EmailLocalChars == LowerChars \cup UpperChars \cup DigitChars \cup {".", "_", "%", "+", "-"}
EmailDomainChars == LowerChars \cup UpperChars \cup DigitChars \cup {".", "-"}
validate_email(email) ==
    \E i \in 2..Len(email) : \E j \in (i + 2)..Len(email) :
        /\ email[i] = "@"
        /\ email[j] = "."
        /\ \A k \in 1..(i - 1) : email[k] \in EmailLocalChars
        /\ \A k \in (i + 1)..(j - 1) : email[k] \in EmailDomainChars
        /\ \A k \in (j + 1)..Len(email) : email[k] \in LowerChars \cup UpperChars
        /\ Len(email) - j >= 2

(* ------------------------------- inputs -------------------------------- *)
PwStrong1 == <<"S", "t", "r", "0", "n", "g", "!", "P">>
PwStrong2 == <<"N", "e", "w", "S", "t", "r", "0", "!">>
PwShort == <<"S", "h", "0", "r", "t", "!">>
PwNoUpper == <<"a", "l", "l", "l", "o", "w", "e", "r", "1", "!">>
PwEmpty == <<>>
Passwords == {PwStrong1, PwStrong2, PwShort, PwEmpty}

Alice == <<"a", "l", "i">>
Bob == <<"b", "o", "b">>
ShortName == <<"a", "l">>
Usernames == {Alice, Bob, ShortName}

EmailA == <<"a", "@", "x", ".", "i", "o">>
EmailB == <<"b", "@", "x", ".", "i", "o">>
EmailBad == <<"a", "@", "x">>
Emails == {EmailA, EmailB, EmailBad}

\* A well-formed username and email that no stored user has.
NewName == <<"n", "e", "w">>
EmailNew == <<"n", "@", "x", ".", "i", "o">>

(* -------------------------------- state -------------------------------- *)
VARIABLES
    users,      \* the users collection: documents in insertion order
    now,        \* the clock
    uuids,      \* user ids generated so far (generate_user_id is fresh)
    tokens,     \* reset tokens generated so far (secrets.token_urlsafe is fresh)
    calls,      \* concurrent calls in progress: a bag of calls between two store accesses
    hist,       \* what the concurrent calls have done and returned so far
    use_mongo,  \* database.use_mongo: the document database, else the JSON files
    sessions    \* the documents in sessions.json, the file of the sessions collection

vars == <<users, now, uuids, tokens, calls, hist, use_mongo, sessions>>

(* ------------------------ document store (pymongo) ---------------------- *)
\* dict.get(key, default)
Get(doc, k, default) == IF k \in DOMAIN doc THEN doc[k] ELSE default

\* A document matches the filter {k: v}.
Matches(doc, k, v) == k \in DOMAIN doc /\ doc[k] = v

\* find_one({k: v}): the index of the first matching document, 0 when
\* there is none.
find_one(col, k, v) ==
    IF \E i \in 1..Len(col) : Matches(col[i], k, v)
    THEN CHOOSE i \in 1..Len(col) :
            Matches(col[i], k, v) /\ \A j \in 1..(i - 1) : ~Matches(col[j], k, v)
    ELSE 0

\* $set: the keys of set overwrite or extend the document.
ApplySet(doc, set) ==
    [k \in DOMAIN doc \cup DOMAIN set |-> IF k \in DOMAIN set THEN set[k] ELSE doc[k]]

\* update_one({k: v}, {"$set": set}): the first match is updated.
update_one(col, k, v, set) ==
    [i \in 1..Len(col) |-> IF i = find_one(col, k, v) THEN ApplySet(col[i], set) ELSE col[i]]

update_many_lt_Inclusive(col, k, v, set) ==
    [i \in 1..Len(col) |->
        IF Get(col[i], k, None) # None /\ col[i][k] <= v THEN ApplySet(col[i], set) ELSE col[i]]

\* update_many({k: {"$lt": v}}, {"$set": set}): every match is updated; a
\* null field is not less than any date.
update_many_lt(col, k, v, set) ==
    [i \in 1..Len(col) |->
        IF Get(col[i], k, None) # None /\ col[i][k] < v THEN ApplySet(col[i], set) ELSE col[i]]

insert_one(col, doc) == Append(col, doc)

(* ------------------------------ results -------------------------------- *)
Ok(msg) == [ok |-> TRUE, msg |-> msg]
Fail(msg) == [ok |-> FALSE, msg |-> msg]
FailLocked(until) == [ok |-> FALSE, msg |-> "Account locked until", until |-> until]
SessionInfo(username, user) ==
    [ok |-> TRUE, msg |-> "", username |-> username, role |-> Get(user, "role", None),
     name |-> Get(user, "name", None), email |-> Get(user, "email", None)]

\* What a method leaves and returns: the collection, the returned value,
\* the store calls and hash comparisons it made, in order.
Out(col, r, l) == [users |-> col, ret |-> r, log |-> l]

\* Entries of the access log: the store call with its filter {key: val}
\* and, for a write, its $set document; a hash comparison.
Find(key, val) == [ev |-> "find_one", key |-> key, val |-> val]
Update(key, val, set) == [ev |-> "update_one", key |-> key, val |-> val, set |-> set]
Insert(doc) == [ev |-> "insert_one", doc |-> doc]
Verify == [ev |-> "verify_password"]

(* ----------------------------- create_user ------------------------------ *)
NewUser_Pending(user_id, t, username, password, email, name, role) ==
    [user_id |-> user_id, username |-> username, password |-> hash_password(password),
     email |-> email, name |-> name, role |-> role, created_at |-> t,
     last_login |-> None, failed_attempts |-> 0, is_locked |-> FALSE,
     lockout_until |-> None, status |-> "pending", reset_token |-> None,
     token_expiry |-> None]

\* The document of lines 102-118.
NewUser(user_id, t, username, password, email, name, role) ==
    [user_id |-> user_id, username |-> username, password |-> hash_password(password),
     email |-> email, name |-> name, role |-> role, created_at |-> t,
     last_login |-> None, failed_attempts |-> 0, is_locked |-> FALSE,
     lockout_until |-> None, status |-> "active", reset_token |-> None,
     token_expiry |-> None]

CreateResult_NoEmailCheck(col, user_id, t, username, password, email, name, role) ==
    LET byName == <<Find("username", username)>>
        doc == NewUser(user_id, t, username, password, email, name, role)
    IN  IF Len(username) < 3 THEN
            Out(col, Fail("Username must be at least 3 characters"), <<>>)
        ELSE IF ~validate_email(email) THEN
            Out(col, Fail("Invalid email format"), <<>>)
        ELSE IF find_one(col, "username", username) # 0 THEN
            Out(col, Fail("Username already exists"), byName)
        ELSE IF validate_password(password) # "" THEN
            Out(col, Fail(validate_password(password)), byName)
        ELSE
            Out(insert_one(col, doc), Ok("User created successfully in MongoDB."),
                byName \o <<Insert(doc)>>)

CreateResult_PasswordFirst(col, user_id, t, username, password, email, name, role) ==
    LET byName == <<Find("username", username)>>
        byBoth == <<Find("username", username), Find("email", email)>>
        doc == NewUser(user_id, t, username, password, email, name, role)
    IN  IF validate_password(password) # "" THEN
            Out(col, Fail(validate_password(password)), <<>>)
        ELSE IF Len(username) < 3 THEN
            Out(col, Fail("Username must be at least 3 characters"), <<>>)
        ELSE IF ~validate_email(email) THEN
            Out(col, Fail("Invalid email format"), <<>>)
        ELSE IF find_one(col, "username", username) # 0 THEN
            Out(col, Fail("Username already exists"), byName)
        ELSE IF find_one(col, "email", email) # 0 THEN
            Out(col, Fail("Email already exists"), byBoth)
        ELSE
            Out(insert_one(col, doc), Ok("User created successfully in MongoDB."),
                byBoth \o <<Insert(doc)>>)

\* create_user called at time t on collection col; user_id is the fresh id.
CreateResult(col, user_id, t, username, password, email, name, role) ==
    LET byName == <<Find("username", username)>>
        byBoth == <<Find("username", username), Find("email", email)>>
        doc == NewUser(user_id, t, username, password, email, name, role)
    IN  IF Len(username) < 3 THEN
            Out(col, Fail("Username must be at least 3 characters"), <<>>)
        ELSE IF ~validate_email(email) THEN
            Out(col, Fail("Invalid email format"), <<>>)
        ELSE IF find_one(col, "username", username) # 0 THEN
            Out(col, Fail("Username already exists"), byName)
        ELSE IF find_one(col, "email", email) # 0 THEN
            Out(col, Fail("Email already exists"), byBoth)
        ELSE IF validate_password(password) # "" THEN
            Out(col, Fail(validate_password(password)), byBoth)
        ELSE
            Out(insert_one(col, doc), Ok("User created successfully in MongoDB."),
                byBoth \o <<Insert(doc)>>)

create_user(username, password, email, name, role) ==
    LET c == CreateResult(users, uuids + 1, now, username, password, email, name, role)
    IN  /\ users' = c.users
        /\ uuids' = IF c.ret.ok THEN uuids + 1 ELSE uuids
        /\ UNCHANGED <<now, tokens, calls, hist, use_mongo, sessions>>

(* --------------------------- authenticate_user -------------------------- *)
InLockWindow_Inclusive(user, t) ==
    /\ Get(user, "is_locked", FALSE)
    /\ Get(user, "lockout_until", None) # None
    /\ Get(user, "lockout_until", None) >= t

InLockWindow_Early(user, t) ==
    /\ Get(user, "is_locked", FALSE)
    /\ Get(user, "lockout_until", None) # None
    /\ Get(user, "lockout_until", None) > t + 1

\* Lines 130-133: a locked user whose window is still open at time t.
InLockWindow(user, t) ==
    /\ Get(user, "is_locked", FALSE)
    /\ Get(user, "lockout_until", None) # None
    /\ Get(user, "lockout_until", None) > t

\* Lines 134-138: a locked user past the window has the lock lifted in the
\* store; the document read at line 126 stays as it was read.
LiftSet_KeepCounter == [is_locked |-> FALSE, lockout_until |-> None]

LiftSet_KeepUntil == [is_locked |-> FALSE, failed_attempts |-> 0]

LiftSet == [is_locked |-> FALSE, failed_attempts |-> 0, lockout_until |-> None]

AfterLift(col, username, user) ==
    IF Get(user, "is_locked", FALSE)
    THEN update_one(col, "username", username, LiftSet)
    ELSE col

LiftLog(username, user) ==
    IF Get(user, "is_locked", FALSE)
    THEN <<Update("username", username, LiftSet)>>
    ELSE <<>>

LoginSet_KeepCounter(t) == [last_login |-> t, lockout_until |-> None]

\* Lines 152-162: the password matches.
LoginSet(t) == [last_login |-> t, failed_attempts |-> 0, lockout_until |-> None]

FailedSet_OneMore(user, t) ==
    LET failed_attempts == Get(user, "failed_attempts", 0) + 1
        is_locked == failed_attempts > MAX_LOGIN_ATTEMPTS
        lockout_until == IF is_locked THEN t + LOCKOUT_DURATION_MINUTES ELSE None
    IN  [failed_attempts |-> failed_attempts, is_locked |-> is_locked,
         lockout_until |-> lockout_until]

\* Lines 169-183: the password does not match; the counter is taken from
\* the document read at line 126.
FailedSet(user, t) ==
    LET failed_attempts == Get(user, "failed_attempts", 0) + 1
        is_locked == failed_attempts >= MAX_LOGIN_ATTEMPTS
        lockout_until == IF is_locked THEN t + LOCKOUT_DURATION_MINUTES ELSE None
    IN  [failed_attempts |-> failed_attempts, is_locked |-> is_locked,
         lockout_until |-> lockout_until]

AuthResult_StatusLast(col, t, username, password) ==
    LET i == find_one(col, "username", username)
        user == col[i]
        read == <<Find("username", username)>>
        col1 == AfterLift(col, username, user)
        log1 == read \o LiftLog(username, user)
    IN  IF i = 0 THEN Out(col, Fail("User not found"), read)
        ELSE IF InLockWindow(user, t) THEN
            Out(col, FailLocked(user.lockout_until), read)
        ELSE IF password # PwNone /\ ~verify_password(password, Get(user, "password", "")) THEN
            LET set == FailedSet(user, t)
            IN  Out(update_one(col1, "username", username, set),
                    IF set.is_locked THEN FailLocked(set.lockout_until)
                                     ELSE Fail("Invalid password"),
                    log1 \o <<Verify, Update("username", username, set)>>)
        ELSE IF Get(user, "status", "") # "active" THEN
            Out(col1, Fail("Account is inactive"), log1)
        ELSE IF password = PwNone THEN
            Out(col1, SessionInfo(username, user), log1)
        ELSE
            Out(update_one(col1, "username", username, LoginSet(t)),
                SessionInfo(username, user),
                log1 \o <<Verify, Update("username", username, LoginSet(t))>>)

\* authenticate_user called at time t on collection col.
AuthResult(col, t, username, password) ==
    LET i == find_one(col, "username", username)
        user == col[i]
        read == <<Find("username", username)>>
        col1 == AfterLift(col, username, user)
        log1 == read \o LiftLog(username, user)
    IN  IF i = 0 THEN Out(col, Fail("User not found"), read)
        ELSE IF InLockWindow(user, t) THEN
            Out(col, FailLocked(user.lockout_until), read)
        ELSE IF Get(user, "status", "") # "active" THEN
            Out(col1, Fail("Account is inactive"), log1)
        ELSE IF password = PwNone THEN
            Out(col1, SessionInfo(username, user), log1)
        ELSE IF verify_password(password, Get(user, "password", "")) THEN
            Out(update_one(col1, "username", username, LoginSet(t)),
                SessionInfo(username, user),
                log1 \o <<Verify, Update("username", username, LoginSet(t))>>)
        ELSE
            LET set == FailedSet(user, t)
            IN  Out(update_one(col1, "username", username, set),
                    IF set.is_locked THEN FailLocked(set.lockout_until)
                                     ELSE Fail("Invalid password"),
                    log1 \o <<Verify, Update("username", username, set)>>)

authenticate_user(username, password) ==
    /\ users' = AuthResult(users, now, username, password).users
    /\ UNCHANGED <<now, uuids, tokens, calls, hist, use_mongo, sessions>>

(* ---------------------------- change_password ---------------------------- *)
ChangeResult_NoCount(col, t, username, current_password, new_password) ==
    LET i == find_one(col, "username", username)
        set == [password |-> hash_password(new_password), last_modified |-> t]
        read == <<Find("username", username)>>
    IN  IF i = 0 \/ current_password = PwNone THEN
            Out(col, Fail("Current password is incorrect"), read)
        ELSE IF ~verify_password(current_password, Get(col[i], "password", "")) THEN
            Out(col, Fail("Current password is incorrect"), read \o <<Verify>>)
        ELSE IF validate_password(new_password) # "" THEN
            Out(col, Fail(validate_password(new_password)), read \o <<Verify>>)
        ELSE
            Out(update_one(col, "username", username, set),
                Ok("Password updated successfully in MongoDB."),
                read \o <<Verify, Update("username", username, set)>>)

ChangeResult_ClearToken(col, t, username, current_password, new_password) ==
    LET a == AuthResult(col, t, username, current_password)
        set == [password |-> hash_password(new_password), last_modified |-> t,
                reset_token |-> None, token_expiry |-> None]
    IN  IF ~a.ret.ok THEN Out(a.users, Fail("Current password is incorrect"), a.log)
        ELSE IF validate_password(new_password) # "" THEN
            Out(a.users, Fail(validate_password(new_password)), a.log)
        ELSE
            Out(update_one(a.users, "username", username, set),
                Ok("Password updated successfully in MongoDB."),
                a.log \o <<Update("username", username, set)>>)

ChangeResult_StampCreated(col, t, username, current_password, new_password) ==
    LET a == AuthResult(col, t, username, current_password)
        set == [password |-> hash_password(new_password), created_at |-> t]
    IN  IF ~a.ret.ok THEN Out(a.users, Fail("Current password is incorrect"), a.log)
        ELSE IF validate_password(new_password) # "" THEN
            Out(a.users, Fail(validate_password(new_password)), a.log)
        ELSE
            Out(update_one(a.users, "username", username, set),
                Ok("Password updated successfully in MongoDB."),
                a.log \o <<Update("username", username, set)>>)

\* change_password called at time t.
ChangeResult(col, t, username, current_password, new_password) ==
    LET a == AuthResult(col, t, username, current_password)
        set == [password |-> hash_password(new_password), last_modified |-> t]
    IN  IF ~a.ret.ok THEN Out(a.users, Fail("Current password is incorrect"), a.log)
        ELSE IF validate_password(new_password) # "" THEN
            Out(a.users, Fail(validate_password(new_password)), a.log)
        ELSE
            Out(update_one(a.users, "username", username, set),
                Ok("Password updated successfully in MongoDB."),
                a.log \o <<Update("username", username, set)>>)

change_password(username, current_password, new_password) ==
    /\ users' = ChangeResult(users, now, username, current_password, new_password).users
    /\ UNCHANGED <<now, uuids, tokens, calls, hist, use_mongo, sessions>>

(* ------------------------- reset-token life cycle ------------------------ *)
TokenExpiry_NoTtl(t) == t

\* Line 227: when a token issued at time t expires.
TokenExpiry(t) == t + TOKEN_EXPIRY_MINUTES

GenerateResult_Reuse(col, token, t, email) ==
    LET i == find_one(col, "email", email)
        user == col[i]
        expires == TokenExpiry(t)
        kept == IF user.reset_token # None THEN user.reset_token ELSE token
        set == [reset_token |-> kept, token_expiry |-> expires]
    IN  IF i = 0 THEN
            Out(col, [ok |-> FALSE, token |-> None, msg |-> "Email not found"],
                <<Find("email", email)>>)
        ELSE
            Out(update_one(col, "email", email, set),
                [ok |-> TRUE, token |-> token,
                 msg |-> Get(user, "name", Get(user, "username", "User"))],
                <<Find("email", email), Update("email", email, set)>>)

\* generate_reset_token called at time t; token is the fresh value that
\* secrets.token_urlsafe returns.  Tokens are numbered from 1; 0 stands for
\* the empty string.
GenerateResult(col, token, t, email) ==
    LET i == find_one(col, "email", email)
        user == col[i]
        expires == TokenExpiry(t)
        set == [reset_token |-> token, token_expiry |-> expires]
    IN  IF i = 0 THEN
            Out(col, [ok |-> FALSE, token |-> None, msg |-> "Email not found"],
                <<Find("email", email)>>)
        ELSE
            Out(update_one(col, "email", email, set),
                [ok |-> TRUE, token |-> token,
                 msg |-> Get(user, "name", Get(user, "username", "User"))],
                <<Find("email", email), Update("email", email, set)>>)

generate_reset_token(email) ==
    LET g == GenerateResult(users, tokens + 1, now, email)
    IN  /\ g.ret.ok => tokens < MaxTokens
        /\ users' = g.users
        /\ tokens' = IF g.ret.ok THEN tokens + 1 ELSE tokens
        /\ UNCHANGED <<now, uuids, calls, hist, use_mongo, sessions>>

Expired_Inclusive(token_expiry, t) == token_expiry <= t

Expired_Never(token_expiry, t) == FALSE

\* Line 261: the expiry lies before the time of the call.
Expired(token_expiry, t) == token_expiry < t

ValidateResult_Consume(col, t, token) ==
    LET i == find_one(col, "reset_token", token)
        user == col[i]
        token_expiry == Get(user, "token_expiry", None)
        read == <<Find("reset_token", token)>>
        set == [reset_token |-> None, token_expiry |-> None]
    IN  IF token = 0 \/ token = None THEN Out(col, Fail("No reset token provided"), <<>>)
        ELSE IF i = 0 THEN Out(col, Fail("Invalid reset token"), read)
        ELSE IF token_expiry = None THEN Out(col, Fail("Reset token has expired"), read)
        ELSE IF Expired(token_expiry, t) THEN Out(col, Fail("Reset token has expired"), read)
        ELSE Out(update_one(col, "reset_token", token, set),
                 [ok |-> TRUE, msg |-> "", username |-> Get(user, "username", None),
                  email |-> Get(user, "email", None), name |-> Get(user, "name", None)],
                 read \o <<Update("reset_token", token, set)>>)

\* validate_reset_token called at time t.
ValidateResult(col, t, token) ==
    LET i == find_one(col, "reset_token", token)
        user == col[i]
        token_expiry == Get(user, "token_expiry", None)
        read == <<Find("reset_token", token)>>
    IN  IF token = 0 \/ token = None THEN Out(col, Fail("No reset token provided"), <<>>)
        ELSE IF i = 0 THEN Out(col, Fail("Invalid reset token"), read)
        ELSE IF token_expiry = None THEN Out(col, Fail("Reset token has expired"), read)
        ELSE IF Expired(token_expiry, t) THEN Out(col, Fail("Reset token has expired"), read)
        ELSE Out(col,
                 [ok |-> TRUE, msg |-> "", username |-> Get(user, "username", None),
                  email |-> Get(user, "email", None), name |-> Get(user, "name", None)],
                 read)

validate_reset_token(token) ==
    /\ users' = ValidateResult(users, now, token).users
    /\ UNCHANGED <<now, uuids, tokens, calls, hist, use_mongo, sessions>>

ResetSet_KeepLock(new_password, t) ==
    [password |-> hash_password(new_password), reset_token |-> None,
     token_expiry |-> None, last_modified |-> t]

ResetSet_KeepToken(new_password, t) ==
    [password |-> hash_password(new_password), last_modified |-> t,
     is_locked |-> FALSE, failed_attempts |-> 0, lockout_until |-> None]

\* Lines 292-301.
ResetSet(new_password, t) ==
    [password |-> hash_password(new_password), reset_token |-> None,
     token_expiry |-> None, last_modified |-> t, is_locked |-> FALSE,
     failed_attempts |-> 0, lockout_until |-> None]

ResetResult_TokenFirst(col, t, token, new_password) ==
    LET v == ValidateResult(col, t, token)
        set == ResetSet(new_password, t)
    IN  IF ~v.ret.ok THEN Out(col, v.ret, v.log)
        ELSE IF validate_password(new_password) # "" THEN
            Out(col, Fail(validate_password(new_password)), v.log)
        ELSE
            Out(update_one(col, "reset_token", token, set),
                Ok("Password reset successfully! You can now login with your new password."),
                v.log \o <<Update("reset_token", token, set)>>)

\* reset_password called at time t.
ResetResult(col, t, token, new_password) ==
    LET v == ValidateResult(col, t, token)
        set == ResetSet(new_password, t)
    IN  IF validate_password(new_password) # "" THEN
            Out(col, Fail(validate_password(new_password)), <<>>)
        ELSE IF ~v.ret.ok THEN Out(col, v.ret, v.log)
        ELSE
            Out(update_one(col, "reset_token", token, set),
                Ok("Password reset successfully! You can now login with your new password."),
                v.log \o <<Update("reset_token", token, set)>>)

reset_password(token, new_password) ==
    /\ users' = ResetResult(users, now, token, new_password).users
    /\ UNCHANGED <<now, uuids, tokens, calls, hist, use_mongo, sessions>>

ClearSet_TokenOnly == [reset_token |-> None]

\* Line 313.
ClearSet == [reset_token |-> None, token_expiry |-> None]

\* clear_expired_tokens called at time t.
ClearResult(col, t) ==
    Out(update_many_lt(col, "token_expiry", t, ClearSet), None,
        <<[ev |-> "update_many", key |-> "token_expiry", lt |-> t, set |-> ClearSet]>>)

clear_expired_tokens ==
    /\ users' = ClearResult(users, now).users
    /\ UNCHANGED <<now, uuids, tokens, calls, hist, use_mongo, sessions>>

(* ------------------------ failing store calls --------------------------- *)
\* What a method gives its caller when the k-th entry of its access log, a
\* store call, raises (the store is unreachable): the exception itself
\* where the call is made outside a try block, the method's own failure
\* value where an except clause catches it.  out is what the method does
\* with a working store.
Raised == [raised |-> TRUE]
IsStoreCall(entry) == entry.ev \in {"find_one", "update_one", "update_many", "insert_one"}
StoreCalls(out) == {k \in 1..Len(out.log) : IsStoreCall(out.log[k])}

\* create_user: the two find_one calls of lines 92-95 are outside the try
\* of lines 101-122, insert_one is inside.
CreateFault(out, k) ==
    IF out.log[k].ev = "insert_one" THEN Fail("Error creating user") ELSE Raised

\* authenticate_user has no try block.
AuthFault(out, k) == Raised

\* change_password: authenticate_user is called outside the try of lines
\* 196-208, the final update_one inside.
ChangeFault(out, k) ==
    IF out.ret.ok /\ k = Len(out.log) THEN Fail("Error updating password") ELSE Raised

\* generate_reset_token: find_user_by_email is called outside the try of
\* lines 223-240, update_one inside.
GenerateFault(out, k) ==
    IF out.log[k].ev = "update_one"
    THEN [ok |-> FALSE, token |-> None, msg |-> "Error generating reset token"]
    ELSE Raised

\* validate_reset_token has no try block.
ValidateFault(out, k) == Raised

\* reset_password: validate_reset_token is called outside the try of lines
\* 287-306, update_one inside.
ResetFault(out, k) ==
    IF out.log[k].ev = "update_one" THEN Fail("Error resetting password") ELSE Raised

\* clear_expired_tokens: everything is inside the try of lines 310-316.
ClearFault(out, k) == None

(* ------------------------- forgot-password view -------------------------- *)
\* The session state of the page before a submission.
NoSubmission == [forgot_password_sent |-> FALSE, forgot_password_email |-> <<>>]
Sent(email) == [forgot_password_sent |-> TRUE, forgot_password_email |-> email]

ForgotSubmit_RevealUnknown(col, token, t, email, email_configured, email_sent) ==
    LET g == GenerateResult(col, token, t, email)
    IN  IF email = <<>> THEN
            [users |-> col, session |-> NoSubmission, error |-> "Please enter your email address"]
        ELSE IF ~validate_email(email) THEN
            [users |-> col, session |-> NoSubmission,
             error |-> "Please enter a valid email address"]
        ELSE IF g.ret.ok THEN [users |-> g.users, session |-> Sent(email), error |-> ""]
        ELSE [users |-> g.users, session |-> NoSubmission, error |-> g.ret.msg]

\* views/forgot_password.py lines 106-143: the form is submitted with
\* email; email_configured is what is_email_configured() said and
\* email_sent what send_password_reset_email returns.
ForgotSubmit(col, token, t, email, email_configured, email_sent) ==
    LET g == GenerateResult(col, token, t, email)
    IN  IF email = <<>> THEN
            [users |-> col, session |-> NoSubmission, error |-> "Please enter your email address"]
        ELSE IF ~validate_email(email) THEN
            [users |-> col, session |-> NoSubmission,
             error |-> "Please enter a valid email address"]
        ELSE IF g.ret.ok THEN
            IF email_configured THEN
                IF email_sent THEN [users |-> g.users, session |-> Sent(email), error |-> ""]
                ELSE [users |-> g.users, session |-> Sent(email), error |-> ""]
            ELSE [users |-> g.users, session |-> Sent(email), error |-> ""]
        ELSE [users |-> g.users, session |-> Sent(email), error |-> ""]

(* ------------------- Credential hasher, both configurations ------------- *)
\* hash_password under BCRYPT_AVAILABLE = bcrypt_available: a bcrypt digest,
\* else a werkzeug pbkdf2 digest.
HashIn(bcrypt_available, password) ==
    [scheme |-> IF bcrypt_available THEN "bcrypt" ELSE "pbkdf2", of |-> password]

\* bcrypt.checkpw: compares against a bcrypt digest, raises on anything
\* else (invalid salt).
bcrypt_checkpw(password, password_hash) ==
    IF password_hash.scheme = "bcrypt"
    THEN IF password_hash.of = password THEN "true" ELSE "false"
    ELSE "raise"

\* werkzeug's check_password_hash: compares against a pbkdf2 digest; on a
\* digest it does not know it answers false or raises, as raises says
\* (it raises on an unknown method name and on a digest that is no string).
check_password_hash(password_hash, password, raises) ==
    IF password_hash.scheme = "pbkdf2" /\ ~raises
    THEN IF password_hash.of = password THEN "true" ELSE "false"
    ELSE IF raises THEN "raise" ELSE "false"

\* verify_password, lines 41-53: "true", "false", or "raise" when an
\* exception leaves the function.
VerifyIn(bcrypt_available, password, password_hash, raises) ==
    IF bcrypt_available THEN
        IF bcrypt_checkpw(password, password_hash) # "raise"
        THEN bcrypt_checkpw(password, password_hash)
        ELSE IF password_hash.scheme = "pbkdf2"
             THEN check_password_hash(password_hash, password, raises)
             ELSE "false"
    ELSE check_password_hash(password_hash, password, raises)

(* ---------------------------- specification ----------------------------- *)
Init ==
    /\ users = <<NewUser(1, 0, Bob, PwStrong2, EmailB, Bob, "admin")>>
    /\ now = 0
    /\ uuids = 1
    /\ tokens = 0
    /\ calls = EmptyBag
    /\ hist = <<>>
    /\ use_mongo = TRUE
    /\ sessions = <<>>

\* Time passes between calls.
Tick ==
    /\ now < MaxTime
    /\ now' = now + 1
    /\ UNCHANGED <<users, uuids, tokens, calls, hist, use_mongo, sessions>>

\* The calls explored.  Registrations: a new account, the two duplicates,
\* and the malformed ones.  Logins and password changes are aimed at Alice
\* or at a name nobody holds; reset tokens are requested for every email.
Registrations ==
    {<<Alice, PwStrong1, EmailA>>, <<Alice, PwShort, EmailA>>, <<Bob, PwStrong1, EmailA>>,
     <<Alice, PwStrong1, EmailB>>, <<ShortName, PwStrong1, EmailA>>,
     <<Alice, PwStrong1, EmailBad>>}
LoginNames == {Alice, ShortName}
TokenInputs == 0..MaxTokens

Next ==
    \/ Tick
    \/ \E r \in Registrations : create_user(r[1], r[2], r[3], r[1], "teacher")
    \/ \E u \in LoginNames, p \in Passwords \cup {PwNone} : authenticate_user(u, p)
    \/ \E u \in LoginNames, p \in {PwStrong1, PwShort}, q \in {PwStrong2, PwShort} :
            change_password(u, p, q)
    \/ \E e \in Emails : generate_reset_token(e)
    \/ \E t \in TokenInputs : validate_reset_token(t)
    \/ \E t \in TokenInputs, p \in {PwStrong1, PwShort} : reset_password(t, p)
    \/ clear_expired_tokens

Spec == Init /\ [][Next]_vars

\* The same calls on a collection in which the second account has been
\* deactivated in the store (status is not written by any method after
\* registration): after any number of counted failures below the maximum,
\* or while locked until minute 1.
InactiveUsers ==
    LET doc == NewUser(2, 0, Alice, PwStrong1, EmailA, Alice, "teacher")
    IN  {[doc EXCEPT !.status = "inactive", !.failed_attempts = n] :
            n \in 0..(MAX_LOGIN_ATTEMPTS - 1)}
        \cup {[doc EXCEPT !.status = "inactive", !.failed_attempts = MAX_LOGIN_ATTEMPTS,
                          !.is_locked = TRUE, !.lockout_until = 1]}

InitInactive ==
    /\ users \in {<<NewUser(1, 0, Bob, PwStrong2, EmailB, Bob, "admin"), doc>> :
                    doc \in InactiveUsers}
    /\ now = 0
    /\ uuids = 2
    /\ tokens = 0
    /\ calls = EmptyBag
    /\ hist = <<>>
    /\ use_mongo = TRUE
    /\ sessions = <<>>

SpecInactive == InitInactive /\ [][Next]_vars

(* ----------------------- concurrent authenticate calls ------------------- *)
\* Several authenticate_user calls on one account run at once.  A call is
\* split where it goes to the store: the find_one of line 126, the lifting
\* update_one of lines 135-138, and the rest of the method with its one
\* update_one.  Between its steps a call holds the document it read.

\* Lines 140-184 on the document user read earlier, against the
\* collection col as it is now.
AuthRest(col, t, username, password, user) ==
    IF Get(user, "status", "") # "active" THEN Out(col, Fail("Account is inactive"), <<>>)
    ELSE IF password = PwNone THEN Out(col, SessionInfo(username, user), <<>>)
    ELSE IF verify_password(password, Get(user, "password", "")) THEN
        Out(update_one(col, "username", username, LoginSet(t)),
            SessionInfo(username, user),
            <<Verify, Update("username", username, LoginSet(t))>>)
    ELSE
        LET set == FailedSet(user, t)
        IN  Out(update_one(col, "username", username, set),
                IF set.is_locked THEN FailLocked(set.lockout_until)
                                 ELSE Fail("Invalid password"),
                <<Verify, Update("username", username, set)>>)

\* Line 126 to the first return or store write: the call reads the user;
\* it returns at once for an unknown user and inside an open lockout
\* window, and goes on holding the document otherwise.
login_read(username, password) ==
    LET i == find_one(users, "username", username)
        user == users[i]
        call == [op |-> "authenticate_user", username |-> username,
                 password |-> password, user |-> user,
                 pc |-> IF Get(user, "is_locked", FALSE) THEN "lift" ELSE "rest"]
    IN  /\ hist.started < MaxCalls
        /\ calls' = IF i = 0 \/ InLockWindow(user, now) THEN calls
                    ELSE calls (+) SetToBag({call})
        /\ hist' = [hist EXCEPT !.started = @ + 1,
                                !.rights = IF i # 0 /\ user.password = hash_password(password)
                                           THEN @ + 1 ELSE @]
        /\ UNCHANGED <<users, now, uuids, tokens, use_mongo, sessions>>

\* Lines 135-138 of a call that read a lapsed lock.
login_lift(call) ==
    /\ call.op = "authenticate_user" /\ call.pc = "lift"
    /\ users' = update_one(users, "username", call.username, LiftSet)
    /\ calls' = (calls (-) SetToBag({call})) (+) SetToBag({[call EXCEPT !.pc = "rest"]})
    /\ UNCHANGED <<now, uuids, tokens, hist, use_mongo, sessions>>

\* Lines 140-184 of a call: the status check, the hash comparison and the
\* write that follows it.  hist counts the comparisons made, notes how
\* many had been made when a write first left the account locked, and
\* notes a successful login whose write left the account flagged locked.
login_rest(call) ==
    LET o == AuthRest(users, now, call.username, call.password, call.user)
        i == find_one(users, "username", call.username)
        compared == IF Len(o.log) > 0 THEN hist.compared + 1 ELSE hist.compared
    IN  /\ call.op = "authenticate_user" /\ call.pc = "rest"
        /\ users' = o.users
        /\ calls' = calls (-) SetToBag({call})
        /\ hist' = [hist EXCEPT !.compared = compared,
                                !.first_lock = IF @ = None /\ i # 0 /\ o.users[i].is_locked
                                               THEN compared ELSE @,
                                !.ok_left_locked =
                                    @ \/ (o.ret.ok /\ Len(o.log) > 0 /\ i # 0
                                            /\ o.users[i].is_locked)]
        /\ UNCHANGED <<now, uuids, tokens, use_mongo, sessions>>

\* The account the calls are aimed at has just been registered.
InitLoginRace ==
    /\ users = <<NewUser(1, 0, Bob, PwStrong2, EmailB, Bob, "admin"),
                 NewUser(2, 0, Alice, PwStrong1, EmailA, Alice, "teacher")>>
    /\ now = 0
    /\ uuids = 2
    /\ tokens = 0
    /\ calls = EmptyBag
    /\ hist = [started |-> 0, rights |-> 0, compared |-> 0, first_lock |-> None,
               ok_left_locked |-> FALSE]
    /\ use_mongo = TRUE
    /\ sessions = <<>>

NextLoginRace ==
    \/ Tick
    \/ \E p \in {PwStrong1, PwStrong2} : login_read(Alice, p)
    \/ \E call \in BagToSet(calls) : login_lift(call)
    \/ \E call \in BagToSet(calls) : login_rest(call)

SpecLoginRace == InitLoginRace /\ [][NextLoginRace]_vars

(* ------------------------ concurrent create_user calls ------------------- *)
\* Several create_user calls run at once.  A call is split where it goes
\* to the store: the find_one by username (line 92), the find_one by email
\* (line 94) and insert_one (line 119).

\* insert_one on the two stores.  The document database has unique indexes
\* on username, user_id and email (database.py:195-197) and refuses a
\* duplicate with DuplicateKeyError; SimpleCol.insert_one (database.py:84-89)
\* appends whatever it is given.
insert_one_On(mongo, col, doc) ==
    IF mongo /\ \E i \in 1..Len(col) :
                   \/ col[i].username = doc.username
                   \/ col[i].user_id = doc.user_id
                   \/ col[i].email = doc.email
    THEN [raised |-> TRUE, users |-> col]
    ELSE [raised |-> FALSE, users |-> Append(col, doc)]

\* Lines 88-93: the argument checks and the look-up of the username.
create_check_username(username, password, email, name, role) ==
    LET call == [op |-> "create_user", username |-> username, password |-> password,
                 email |-> email, name |-> name, role |-> role, pc |-> "email"]
        go == /\ Len(username) >= 3
              /\ validate_email(email)
              /\ find_one(users, "username", username) = 0
    IN  /\ hist.started < MaxCalls
        /\ calls' = IF go THEN calls (+) SetToBag({call}) ELSE calls
        /\ hist' = [hist EXCEPT !.started = @ + 1]
        /\ UNCHANGED <<users, now, uuids, tokens, use_mongo, sessions>>

\* Lines 94-99: the look-up of the email, then the password rules.
create_check_email(call) ==
    LET go == /\ find_one(users, "email", call.email) = 0
              /\ validate_password(call.password) = ""
    IN  /\ call.op = "create_user" /\ call.pc = "email"
        /\ calls' = IF go
                    THEN (calls (-) SetToBag({call})) (+) SetToBag({[call EXCEPT !.pc = "insert"]})
                    ELSE calls (-) SetToBag({call})
        /\ UNCHANGED <<users, now, uuids, tokens, hist, use_mongo, sessions>>

\* Lines 101-122: the document is built and inserted; an exception of the
\* store is caught and returned as a failure.  hist lists the username and
\* email of every call that returned success.
create_insert(call) ==
    LET doc == NewUser(uuids + 1, now, call.username, call.password, call.email,
                       call.name, call.role)
        ins == insert_one_On(use_mongo, users, doc)
    IN  /\ call.op = "create_user" /\ call.pc = "insert"
        /\ users' = ins.users
        /\ uuids' = uuids + 1
        /\ calls' = calls (-) SetToBag({call})
        /\ hist' = IF ins.raised THEN hist
                   ELSE [hist EXCEPT !.created = Append(@, <<call.username, call.email>>)]
        /\ UNCHANGED <<now, tokens, use_mongo, sessions>>

\* The store is the document database or the JSON files.
InitCreateRace ==
    /\ users = <<NewUser(1, 0, Bob, PwStrong2, EmailB, Bob, "admin")>>
    /\ now = 0
    /\ uuids = 1
    /\ tokens = 0
    /\ calls = EmptyBag
    /\ hist = [started |-> 0, created |-> <<>>]
    /\ use_mongo \in BOOLEAN
    /\ sessions = <<>>

RaceRegistrations ==
    {<<Alice, PwStrong1, EmailA>>, <<Alice, PwStrong2, EmailNew>>,
     <<NewName, PwStrong1, EmailA>>, <<Bob, PwStrong1, EmailNew>>,
     <<NewName, PwShort, EmailNew>>}

NextCreateRace ==
    \/ \E r \in RaceRegistrations : create_check_username(r[1], r[2], r[3], r[1], "teacher")
    \/ \E call \in BagToSet(calls) : create_check_email(call)
    \/ \E call \in BagToSet(calls) : create_insert(call)

SpecCreateRace == InitCreateRace /\ [][NextCreateRace]_vars

(* ------------- concurrent reset_password and generate_reset_token -------- *)
\* Several reset_password and generate_reset_token calls run at once.  A
\* call is split where it goes to the store: each reads first (find_one
\* by token, by email) and writes later.

\* Lines 219-221: the look-up of the email; an unknown email returns.
issue_read(email) ==
    LET call == [op |-> "generate_reset_token", email |-> email, pc |-> "write"]
    IN  /\ hist.started < MaxCalls
        /\ hist.issuing < MaxTokens
        /\ calls' = IF find_one(users, "email", email) = 0 THEN calls
                    ELSE calls (+) SetToBag({call})
        /\ hist' = [hist EXCEPT !.started = @ + 1,
                                !.issuing = IF find_one(users, "email", email) = 0
                                            THEN @ ELSE @ + 1]
        /\ UNCHANGED <<users, now, uuids, tokens, use_mongo, sessions>>

\* Lines 223-238: the fresh token and its expiry are written.
issue_write(call) ==
    /\ call.op = "generate_reset_token" /\ call.pc = "write"
    /\ users' = update_one(users, "email", call.email,
                           [reset_token |-> tokens + 1, token_expiry |-> TokenExpiry(now)])
    /\ tokens' = tokens + 1
    /\ calls' = calls (-) SetToBag({call})
    /\ UNCHANGED <<now, uuids, hist, use_mongo, sessions>>

\* Lines 278-285: the password rules, then validate_reset_token; a call
\* that passes both goes on, remembering whom the token belonged to.
reset_check(token, new_password) ==
    LET v == ValidateResult(users, now, token)
        go == validate_password(new_password) = "" /\ v.ret.ok
        call == [op |-> "reset_password", token |-> token, new_password |-> new_password,
                 holder |-> v.ret.username, pc |-> "write"]
    IN  /\ hist.started < MaxCalls
        /\ calls' = IF go THEN calls (+) SetToBag({call}) ELSE calls
        /\ hist' = [hist EXCEPT !.started = @ + 1]
        /\ UNCHANGED <<users, now, uuids, tokens, use_mongo, sessions>>

\* Lines 287-304: update_one by token, then the success return whatever
\* the update matched.  hist counts the successes per token and notes a
\* success whose update matched no document, and a success after whose
\* write the holder's stored password is not the hash of the call's
\* password.
reset_write(call) ==
    LET after == update_one(users, "reset_token", call.token,
                            ResetSet(call.new_password, now))
        h == find_one(after, "username", call.holder)
    IN  /\ call.op = "reset_password" /\ call.pc = "write"
        /\ users' = after
        /\ calls' = calls (-) SetToBag({call})
        /\ hist' = [hist EXCEPT
                      !.ok[call.token] = @ + 1,
                      !.unapplied = @ \/ find_one(users, "reset_token", call.token) = 0,
                      !.other_password =
                          @ \/ after[h].password # hash_password(call.new_password)]
        /\ UNCHANGED <<now, uuids, tokens, use_mongo, sessions>>

InitResetRace ==
    /\ users = <<NewUser(1, 0, Bob, PwStrong2, EmailB, Bob, "admin"),
                 NewUser(2, 0, Alice, PwStrong1, EmailA, Alice, "teacher")>>
    /\ now = 0
    /\ uuids = 2
    /\ tokens = 0
    /\ calls = EmptyBag
    /\ hist = [started |-> 0, issuing |-> 0, ok |-> [t \in 1..(MaxTokens + 1) |-> 0],
               unapplied |-> FALSE, other_password |-> FALSE]
    /\ use_mongo = TRUE
    /\ sessions = <<>>

NextResetRace ==
    \/ Tick
    \/ \E e \in {EmailA, EmailB, EmailNew} : issue_read(e)
    \/ \E call \in BagToSet(calls) : issue_write(call)
    \/ \E t \in 1..MaxTokens, p \in {PwStrong1, PwStrong2, PwShort} : reset_check(t, p)
    \/ \E call \in BagToSet(calls) : reset_write(call)

SpecResetRace == InitResetRace /\ [][NextResetRace]_vars

(* --------------------- file-backed store (SimpleCol) -------------------- *)
\* A datetime is the minute it denotes, as in the document database.  In a
\* JSON file a datetime is text: json.dump(default=str) writes the
\* datetime t as str(t), "YYYY-MM-DD HH:MM:SS", here Str(t); a caller may
\* also store t.isoformat(), "YYYY-MM-DDTHH:MM:SS", here Iso(t).  Forever
\* is the text "9999-12-31".  The three kinds of value are kept apart by
\* the hundreds: minutes are below 100.
DayLength == 2
Day(t) == t \div DayLength
Str(t) == 100 + t
Iso(t) == 200 + t
Forever == 300
IsDatetime(v) == v >= 0 /\ v < 100
IsStr(v) == v >= 100 /\ v < 200
IsIso(v) == v >= 200 /\ v < 300
Minute(v) == v % 100

\* Python's order on str, a > b, for two date texts: the date comes
\* first, then the separator (" " sorts before "T"), then the time of day.
TextGreater(a, b) ==
    IF a = Forever THEN TRUE
    ELSE \/ Day(Minute(a)) > Day(Minute(b))
         \/ /\ Day(Minute(a)) = Day(Minute(b))
            /\ \/ IsIso(a) /\ IsStr(b)
               \/ (IsIso(a) <=> IsIso(b)) /\ Minute(a) > Minute(b)

\* The fields that hold datetimes.
DateKeys == {"created_at", "last_login", "last_modified", "lockout_until",
             "token_expiry", "expires_at"}

\* json.dump(..., default=str) of one document: a datetime becomes its str.
json_default(doc) ==
    [k \in DOMAIN doc |-> IF k \in DateKeys /\ IsDatetime(doc[k]) THEN Str(doc[k]) ELSE doc[k]]

\* _save: what the file holds after data has been written.
SimpleCol_save(data) == [i \in 1..Len(data) |-> json_default(data[i])]

\* Line 44: the files whose documents expire.
IsTtl(path) == path \in {"sessions.json", "links.json"}

\* _load at time t of the file holding data: for sessions and links the
\* documents whose expires_at is not greater than now's isoformat are
\* dropped and the rest is saved.
SimpleCol_load(path, data, t) ==
    IF IsTtl(path)
    THEN SelectSeq(data, LAMBDA d : TextGreater(Get(d, "expires_at", Forever), Iso(t)))
    ELSE data

\* A filter is a set of <<key, value>> pairs; d.get(k) != v fails a document.
FiltOk(d, filt) == \A kv \in filt : Get(d, kv[1], None) = kv[2]

FirstMatch(data, filt) ==
    IF \E i \in 1..Len(data) : FiltOk(data[i], filt)
    THEN CHOOSE i \in 1..Len(data) :
            FiltOk(data[i], filt) /\ \A j \in 1..(i - 1) : ~FiltOk(data[j], filt)
    ELSE 0

\* dict(filt)
FiltDoc(filt) == [k \in {kv[1] : kv \in filt} |-> (CHOOSE kv \in filt : kv[1] = k)[2]]

\* Each operation gives the file it leaves and what it returns.  find_one
\* returns the document in a sequence of its own, the empty sequence for
\* None.
SimpleCol_find_one(path, data, t, filt) ==
    LET l == SimpleCol_load(path, data, t)
        i == FirstMatch(l, filt)
    IN  [file |-> l, ret |-> IF i = 0 THEN <<>> ELSE <<l[i]>>]

SimpleCol_find(path, data, t, filt) ==
    LET l == SimpleCol_load(path, data, t)
    IN  [file |-> l,
         ret |-> IF filt = {} THEN l ELSE SelectSeq(l, LAMBDA d : FiltOk(d, filt))]

SimpleCol_count_documents(path, data, t, filt) ==
    LET f == SimpleCol_find(path, data, t, filt)
    IN  [file |-> f.file, ret |-> Len(f.ret)]

SimpleCol_insert_one(path, data, t, doc) ==
    LET l == SimpleCol_load(path, data, t)
    IN  [file |-> SimpleCol_save(Append(l, doc)), ret |-> Len(l) + 1]

SimpleCol_update_one_All(path, data, t, filt, set, upsert) ==
    LET l == SimpleCol_load(path, data, t)
        new == IF FirstMatch(l, filt) # 0
               THEN [i \in 1..Len(l) |-> IF FiltOk(l[i], filt) THEN ApplySet(l[i], set)
                                         ELSE l[i]]
               ELSE IF upsert THEN Append(l, ApplySet(FiltDoc(filt), set))
               ELSE l
    IN  [file |-> SimpleCol_save(new), ret |-> None]

SimpleCol_update_one(path, data, t, filt, set, upsert) ==
    LET l == SimpleCol_load(path, data, t)
        i == FirstMatch(l, filt)
        new == IF i # 0 THEN [l EXCEPT ![i] = ApplySet(l[i], set)]
               ELSE IF upsert THEN Append(l, ApplySet(FiltDoc(filt), set))
               ELSE l
    IN  [file |-> SimpleCol_save(new), ret |-> None]

\* update_many takes <<key, operator, value>> conditions: "eq" for a plain
\* value, "$exists" (value 1 for True, 0 for False), and any other
\* operator document, which a stored value never equals (lines 121-128).
ManyOk(d, conds) ==
    \A c \in conds :
        IF c[2] = "$exists" THEN (c[3] = 1) <=> (c[1] \in DOMAIN d)
        ELSE IF c[2] = "eq" THEN Get(d, c[1], None) = c[3]
        ELSE FALSE

SimpleCol_update_many(path, data, t, conds, set) ==
    LET l == SimpleCol_load(path, data, t)
        new == [i \in 1..Len(l) |-> IF ManyOk(l[i], conds) THEN ApplySet(l[i], set) ELSE l[i]]
    IN  [file |-> SimpleCol_save(new),
         ret |-> Cardinality({i \in 1..Len(l) : ManyOk(l[i], conds)})]

SimpleCol_delete_many(path, data, t, filt) ==
    LET l == SimpleCol_load(path, data, t)
    IN  [file |-> SimpleCol_save(SelectSeq(l, LAMBDA d : ~FiltOk(d, filt))),
         ret |-> Cardinality({i \in 1..Len(l) : FiltOk(l[i], filt)})]

(* ------------------- the sessions collection on its file ----------------- *)
\* The calls explored on sessions.json: sessions with and without
\* expires_at, given as a datetime or as isoformat text.
SessionIds == {1, 2}
Expiries == (0..(MaxTime + 1)) \cup {Iso(t) : t \in 0..(MaxTime + 1)}
SessionDocs ==
    {[session_id |-> i, created_by |-> 1] : i \in SessionIds}
    \cup {[session_id |-> i, created_by |-> 1, expires_at |-> e] :
            i \in SessionIds, e \in Expiries}
SessionFilters ==
    {{}} \cup {{<<"session_id", i>>} : i \in SessionIds}
    \cup {{<<"created_by", c>>} : c \in {1, 2}}
    \cup {{<<"session_id", i>>, <<"created_by", 1>>} : i \in SessionIds}
SessionSets == {[created_by |-> 2], [expires_at |-> MaxTime + 1], [expires_at |-> 0]}
SessionConds ==
    {{<<"created_by", "eq", 1>>}, {<<"expires_at", "$exists", 0>>},
     {<<"expires_at", "$exists", 1>>, <<"session_id", "eq", 1>>}}

sessions_col_find_one(filt) ==
    /\ sessions' = SimpleCol_find_one("sessions.json", sessions, now, filt).file
    /\ UNCHANGED <<users, now, uuids, tokens, calls, hist, use_mongo>>

sessions_col_find(filt) ==
    /\ sessions' = SimpleCol_find("sessions.json", sessions, now, filt).file
    /\ UNCHANGED <<users, now, uuids, tokens, calls, hist, use_mongo>>

sessions_col_count_documents(filt) ==
    /\ sessions' = SimpleCol_count_documents("sessions.json", sessions, now, filt).file
    /\ UNCHANGED <<users, now, uuids, tokens, calls, hist, use_mongo>>

sessions_col_insert_one(doc) ==
    /\ Len(sessions) < MaxDocs
    /\ sessions' = SimpleCol_insert_one("sessions.json", sessions, now, doc).file
    /\ UNCHANGED <<users, now, uuids, tokens, calls, hist, use_mongo>>

sessions_col_update_one(filt, set, upsert) ==
    /\ upsert => Len(sessions) < MaxDocs
    /\ sessions' = SimpleCol_update_one("sessions.json", sessions, now, filt, set, upsert).file
    /\ UNCHANGED <<users, now, uuids, tokens, calls, hist, use_mongo>>

sessions_col_update_many(conds, set) ==
    /\ sessions' = SimpleCol_update_many("sessions.json", sessions, now, conds, set).file
    /\ UNCHANGED <<users, now, uuids, tokens, calls, hist, use_mongo>>

sessions_col_delete_many(filt) ==
    /\ sessions' = SimpleCol_delete_many("sessions.json", sessions, now, filt).file
    /\ UNCHANGED <<users, now, uuids, tokens, calls, hist, use_mongo>>

\* Lines 280-296: the JSON files are in use and sessions.json is empty.
InitSessionsFile ==
    /\ users = <<>>
    /\ now = 0
    /\ uuids = 0
    /\ tokens = 0
    /\ calls = EmptyBag
    /\ hist = <<>>
    /\ use_mongo = FALSE
    /\ sessions = <<>>

NextSessionsFile ==
    \/ Tick
    \/ \E doc \in SessionDocs : sessions_col_insert_one(doc)
    \/ \E filt \in SessionFilters : sessions_col_find_one(filt)
    \/ \E filt \in SessionFilters : sessions_col_find(filt)
    \/ \E filt \in SessionFilters : sessions_col_count_documents(filt)
    \/ \E filt \in SessionFilters, set \in SessionSets, upsert \in BOOLEAN :
            sessions_col_update_one(filt, set, upsert)
    \/ \E conds \in SessionConds, set \in SessionSets : sessions_col_update_many(conds, set)
    \/ \E filt \in SessionFilters : sessions_col_delete_many(filt)

SpecSessionsFile == InitSessionsFile /\ [][NextSessionsFile]_vars

(* --------------------- the users collection on its file ------------------ *)
\* UserManager on the JSON files: users_col is SimpleCol("users.json").
\* The documents it reads hold every datetime as text; comparing such a
\* text with a datetime raises TypeError, which nothing catches.  Its
\* writes go through _save.

\* authenticate_user: line 132 compares the stored lockout_until of a
\* locked user with datetime.now().
AuthResult_OnFile(data, t, username, password) ==
    LET i == find_one(data, "username", username)
        user == data[i]
        a == AuthResult(data, t, username, password)
    IN  IF i # 0 /\ Get(user, "is_locked", FALSE) /\ IsStr(Get(user, "lockout_until", None))
        THEN Out(data, Raised, <<Find("username", username)>>)
        ELSE Out(SimpleCol_save(a.users), a.ret, a.log)

CreateResult_OnFile(data, user_id, t, username, password, email, name, role) ==
    LET c == CreateResult(data, user_id, t, username, password, email, name, role)
    IN  Out(SimpleCol_save(c.users), c.ret, c.log)

GenerateResult_OnFile(data, token, t, email) ==
    LET g == GenerateResult(data, token, t, email)
    IN  Out(SimpleCol_save(g.users), g.ret, g.log)

\* validate_reset_token: line 261 compares the stored token_expiry with
\* datetime.utcnow().
ValidateResult_OnFile(data, t, token) ==
    LET i == find_one(data, "reset_token", token)
        user == data[i]
    IN  IF token # 0 /\ token # None /\ i # 0 /\ IsStr(Get(user, "token_expiry", None))
        THEN Out(data, Raised, <<Find("reset_token", token)>>)
        ELSE ValidateResult(data, t, token)

\* reset_password: validate_reset_token is called outside the try block.
ResetResult_OnFile(data, t, token, new_password) ==
    LET v == ValidateResult_OnFile(data, t, token)
        r == ResetResult(data, t, token, new_password)
    IN  IF validate_password(new_password) # "" THEN Out(data, r.ret, <<>>)
        ELSE IF v.ret = Raised THEN v
        ELSE Out(SimpleCol_save(r.users), r.ret, r.log)

\* clear_expired_tokens: the filter {"token_expiry": {"$lt": now}} goes to
\* SimpleCol.update_many.
ClearResult_OnFile(data, t) ==
    Out(SimpleCol_update_many("users.json", data, t, {<<"token_expiry", "$lt", t>>},
                              ClearSet).file,
        None,
        <<[ev |-> "update_many", key |-> "token_expiry", lt |-> t, set |-> ClearSet]>>)

create_user_OnFile(username, password, email, name, role) ==
    LET c == CreateResult_OnFile(users, uuids + 1, now, username, password, email, name, role)
    IN  /\ users' = c.users
        /\ uuids' = IF c.ret.ok THEN uuids + 1 ELSE uuids
        /\ UNCHANGED <<now, tokens, calls, hist, use_mongo, sessions>>

authenticate_user_OnFile(username, password) ==
    /\ users' = AuthResult_OnFile(users, now, username, password).users
    /\ UNCHANGED <<now, uuids, tokens, calls, hist, use_mongo, sessions>>

generate_reset_token_OnFile(email) ==
    LET g == GenerateResult_OnFile(users, tokens + 1, now, email)
    IN  /\ g.ret.ok => tokens < MaxTokens
        /\ users' = g.users
        /\ tokens' = IF g.ret.ok THEN tokens + 1 ELSE tokens
        /\ UNCHANGED <<now, uuids, calls, hist, use_mongo, sessions>>

validate_reset_token_OnFile(token) ==
    /\ users' = ValidateResult_OnFile(users, now, token).users
    /\ UNCHANGED <<now, uuids, tokens, calls, hist, use_mongo, sessions>>

reset_password_OnFile(token, new_password) ==
    /\ users' = ResetResult_OnFile(users, now, token, new_password).users
    /\ UNCHANGED <<now, uuids, tokens, calls, hist, use_mongo, sessions>>

clear_expired_tokens_OnFile ==
    /\ users' = ClearResult_OnFile(users, now).users
    /\ UNCHANGED <<now, uuids, tokens, calls, hist, use_mongo, sessions>>

\* Lines 280-296: the JSON files are in use; users.json holds one account.
InitUsersFile ==
    /\ users = SimpleCol_save(<<NewUser(1, 0, Bob, PwStrong2, EmailB, Bob, "admin")>>)
    /\ now = 0
    /\ uuids = 1
    /\ tokens = 0
    /\ calls = EmptyBag
    /\ hist = <<>>
    /\ use_mongo = FALSE
    /\ sessions = <<>>

NextUsersFile ==
    \/ Tick
    \/ \E r \in Registrations : create_user_OnFile(r[1], r[2], r[3], r[1], "teacher")
    \/ \E u \in LoginNames, p \in Passwords \cup {PwNone} : authenticate_user_OnFile(u, p)
    \/ \E e \in Emails : generate_reset_token_OnFile(e)
    \/ \E t \in TokenInputs : validate_reset_token_OnFile(t)
    \/ \E t \in TokenInputs, p \in {PwStrong1, PwShort} : reset_password_OnFile(t, p)
    \/ clear_expired_tokens_OnFile

SpecUsersFile == InitUsersFile /\ [][NextUsersFile]_vars

(* ======================= properties of the claims ======================= *)
UserIdx == 1..Len(users)

\* The plaintext p is the password whose hash the document holds.
IsPasswordOf(p, user) == user.password = hash_password(p)
RightPassword(user) == user.password.of
WrongPasswords(user) == {p \in Passwords : ~IsPasswordOf(p, user)}

\* The lockout window of the stored document is open at time t.
WindowOpen(user, t) == user.is_locked /\ user.lockout_until # None /\ t < user.lockout_until
Fresh(user) == user.status = "active" /\ ~user.is_locked /\ user.failed_attempts = 0

(* ------------------------------- C1 ------------------------------------- *)
\* The minutes that may pass between two calls of a checked sequence.
Gaps == {0, 1}

\* The last of the wrong-password calls, made at time t, has left user i
\* locked until t + lockout duration and has reported it, and the right
\* password fails while the window is open.
LockedOut(a, i, t) ==
    LET doc == a.users[i]
        until == t + LOCKOUT_DURATION_MINUTES
    IN  /\ doc.is_locked
        /\ doc.lockout_until = until
        /\ a.ret = FailLocked(until)
        /\ \A t1 \in t..(until - 1) :
              ~AuthResult(a.users, t1, doc.username, RightPassword(doc)).ret.ok

\* n more consecutive wrong-password calls on user i, the next one at time
\* t and each later one after one of the Gaps, end in LockedOut; none of
\* the calls before the last locks.
RECURSIVE WrongCallsLock(_, _, _, _)
WrongCallsLock(col, i, t, n) ==
    \A a \in {AuthResult(col, t, col[i].username, p) : p \in WrongPasswords(col[i])} :
        IF n = 1 THEN LockedOut(a, i, t)
        ELSE /\ ~a.users[i].is_locked
             /\ a.ret = Fail("Invalid password")
             /\ \A g \in Gaps : WrongCallsLock(a.users, i, t + g, n - 1)

\* C1: from an active, unlocked user with failed_attempts = 0, exactly
\* MAX_LOGIN_ATTEMPTS consecutive wrong-password authenticate calls leave
\* the user locked with lockout_until = time of the last call + lockout
\* duration and the last call reports the lockout; and in every state every
\* authenticate call with the correct password made while now <
\* lockout_until fails.
C1_LockAfterMaxAttempts ==
    \A i \in UserIdx :
        /\ Fresh(users[i]) => WrongCallsLock(users, i, now, MAX_LOGIN_ATTEMPTS)
        /\ WindowOpen(users[i], now) =>
              ~AuthResult(users, now, users[i].username, RightPassword(users[i])).ret.ok

\* A user just locked by the MAX_LOGIN_ATTEMPTS-th wrong password, on whom
\* the correct password fails.
C1_Witness ==
    \E i \in UserIdx :
        /\ users[i].is_locked
        /\ users[i].failed_attempts = MAX_LOGIN_ATTEMPTS
        /\ users[i].lockout_until = now + LOCKOUT_DURATION_MINUTES
        /\ AuthResult(users, now, users[i].username, RightPassword(users[i])).ret
             = FailLocked(now + LOCKOUT_DURATION_MINUTES)

(* ------------------------------- C2 ------------------------------------- *)
LockExpired(user, t) ==
    user.is_locked /\ user.lockout_until # None /\ user.lockout_until <= t

\* C2: authenticate on a locked user whose lockout_until has passed lifts
\* the lock and evaluates the rest of the call as for an unlocked user with
\* a zero counter: a wrong password returns "Invalid password" and leaves
\* failed_attempts = 1, is_locked = false, lockout_until = null.
C2_LiftThenCountFromZero ==
    \A i \in UserIdx : \A p \in WrongPasswords(users[i]) :
        (LockExpired(users[i], now) /\ users[i].status = "active" /\ MAX_LOGIN_ATTEMPTS > 1) =>
            \A a \in {AuthResult(users, now, users[i].username, p)} :
                /\ a.ret = Fail("Invalid password")
                /\ a.users[i].failed_attempts = 1
                /\ a.users[i].is_locked = FALSE
                /\ a.users[i].lockout_until = None

(* ------------------------------- C3 ------------------------------------- *)
\* The access log l holds, before the hash comparison, a write that leaves
\* user i of col unlocked with a zero counter and no lockout_until.
LiftedBeforeVerify(col, i, l) ==
    \E k \in 1..Len(l) : \E v \in (k + 1)..Len(l) :
        /\ l[v].ev = "verify_password"
        /\ \A j \in 1..(v - 1) : l[j].ev # "verify_password"
        /\ l[k].ev = "update_one"
        /\ LET doc == update_one(col, l[k].key, l[k].val, l[k].set)[i]
           IN  doc.is_locked = FALSE /\ doc.failed_attempts = 0 /\ doc.lockout_until = None

\* C3: for an active locked user, once now has reached lockout_until the
\* next authenticate call with the correct password succeeds; the lock is
\* lifted in the store (is_locked = false, failed_attempts = 0,
\* lockout_until = null) before the password is compared, and after the
\* call the user is unlocked with failed_attempts = 0.
C3_LockoutLiftedAutomatically ==
    \A i \in UserIdx :
        (LockExpired(users[i], now) /\ users[i].status = "active") =>
            \A a \in {AuthResult(users, now, users[i].username, RightPassword(users[i]))} :
                /\ a.ret.ok
                /\ LiftedBeforeVerify(users, i, a.log)
                /\ a.users[i].is_locked = FALSE
                /\ a.users[i].failed_attempts = 0

\* A locked user at the very instant lockout_until, where the correct
\* password is accepted.
C3_Witness ==
    \E i \in UserIdx :
        /\ users[i].is_locked /\ users[i].lockout_until = now
        /\ AuthResult(users, now, users[i].username, RightPassword(users[i])).ret.ok

(* ------------------------------- C4 ------------------------------------- *)
\* C4: every successful password authenticate (active user, not inside a
\* lockout window, password matching the stored hash) leaves the user with
\* failed_attempts = 0, lockout_until = null, is_locked = false and
\* last_login = now, whatever the counter was, and returns the user's
\* username, role, name and email.
C4_SuccessResetsCounters ==
    \A i \in UserIdx : \A p \in Passwords :
        (users[i].status = "active" /\ ~WindowOpen(users[i], now) /\ IsPasswordOf(p, users[i])) =>
            \A a \in {AuthResult(users, now, users[i].username, p)} :
                /\ a.ret = [ok |-> TRUE, msg |-> "", username |-> users[i].username,
                            role |-> users[i].role, name |-> users[i].name,
                            email |-> users[i].email]
                /\ a.users[i].failed_attempts = 0
                /\ a.users[i].lockout_until = None
                /\ a.users[i].is_locked = FALSE
                /\ a.users[i].last_login = now

\* A user who logged in just now after earlier failures had been counted:
\* the counter is back to 0 (the account carries a lapsed lock count or the
\* login followed wrong passwords).
C4_Witness ==
    \E i \in UserIdx :
        /\ users[i].failed_attempts > 0 /\ ~users[i].is_locked
        /\ \E a \in {AuthResult(users, now, users[i].username, RightPassword(users[i]))} :
              a.ret.ok /\ a.users[i].failed_attempts = 0 /\ a.users[i].last_login = now

(* ------------------------------- C5 ------------------------------------- *)
\* C5: in every state reached by any sequence of create_user, authenticate,
\* change_password, generate_reset_token, validate_reset_token,
\* reset_password and clear_expired_tokens calls with time passing between
\* them, each stored user has is_locked = true if and only if
\* failed_attempts >= MAX_LOGIN_ATTEMPTS.
C5_LockedIffCounterAtMax ==
    \A i \in UserIdx :
        users[i].is_locked <=> users[i].failed_attempts >= MAX_LOGIN_ATTEMPTS

\* A user locked again after an earlier lockout ran out: the counter has
\* passed the maximum.
C5_Witness ==
    \E i \in UserIdx :
        users[i].is_locked /\ users[i].failed_attempts > MAX_LOGIN_ATTEMPTS

(* ------------------------------- C6 ------------------------------------- *)
\* C6: in every reachable state each stored user has a non-null
\* lockout_until if and only if is_locked = true.
C6_LockoutUntilIffLocked ==
    \A i \in UserIdx : (users[i].lockout_until # None) <=> users[i].is_locked

\* A locked user whose window has run out: the lock and lockout_until are
\* both set, and the session check that lifts the lock clears both.
C6_Witness ==
    \E i \in UserIdx :
        /\ LockExpired(users[i], now)
        /\ \E a \in {AuthResult(users, now, users[i].username, PwNone)} :
              ~a.users[i].is_locked /\ a.users[i].lockout_until = None

(* ------------------------------- C7 ------------------------------------- *)
TokenPaired(col) ==
    \A i \in 1..Len(col) : (col[i].reset_token = None) <=> (col[i].token_expiry = None)
TokenFields(col) == [i \in 1..Len(col) |-> <<col[i].reset_token, col[i].token_expiry>>]
StoredNames == {users[i].username : i \in UserIdx}
StoredEmails == {users[i].email : i \in UserIdx}

\* C7: in every reachable state each stored user has reset_token and
\* token_expiry both null or both non-null; create_user,
\* generate_reset_token, reset_password and clear_expired_tokens leave them
\* paired, and authenticate, change_password and validate_reset_token write
\* neither field.
C7_TokenFieldsPaired ==
    /\ TokenPaired(users)
    /\ \A r \in Registrations :
          TokenPaired(CreateResult(users, uuids + 1, now, r[1], r[2], r[3], r[1], "teacher").users)
    /\ \A e \in Emails : TokenPaired(GenerateResult(users, tokens + 1, now, e).users)
    /\ \A t \in TokenInputs, p \in Passwords : TokenPaired(ResetResult(users, now, t, p).users)
    /\ TokenPaired(ClearResult(users, now).users)
    /\ \A u \in StoredNames \cup {ShortName}, p \in Passwords \cup {PwNone} :
          /\ TokenFields(AuthResult(users, now, u, p).users) = TokenFields(users)
          /\ \A q \in {PwStrong2, PwShort} :
                TokenFields(ChangeResult(users, now, u, p, q).users) = TokenFields(users)
    /\ \A t \in TokenInputs : TokenFields(ValidateResult(users, now, t).users) = TokenFields(users)

\* A user holding a token past its expiry, which the sweep then clears.
C7_Witness ==
    \E i \in UserIdx :
        /\ users[i].reset_token # None /\ users[i].token_expiry # None
        /\ users[i].token_expiry < now
        /\ ClearResult(users, now).users[i].reset_token = None
        /\ ClearResult(users, now).users[i].token_expiry = None

(* ------------------------------- C8 ------------------------------------- *)
\* C8: for every existing user with email e, generate_reset_token(e)
\* succeeds, stores the returned token with token_expiry = now + TTL on that
\* user and on no other, and validate_reset_token(returned token) right
\* after succeeds and returns that user's username.
C8_IssueThenValidate ==
    \A i \in UserIdx :
        \A g \in {GenerateResult(users, tokens + 1, now, users[i].email)} :
            /\ g.ret.ok
            /\ g.users[i].reset_token = g.ret.token
            /\ g.users[i].token_expiry = now + TOKEN_EXPIRY_MINUTES
            /\ \A j \in UserIdx \ {i} : g.users[j] = users[j]
            /\ \A v \in {ValidateResult(g.users, now, g.ret.token).ret} :
                  v.ok /\ v.username = users[i].username

\* A user who has just been issued a token while another user holds one
\* too; each token validates to its own holder.
C8_Witness ==
    \E i \in UserIdx : \E j \in UserIdx \ {i} :
        /\ users[i].reset_token # None /\ users[j].reset_token # None
        /\ users[i].token_expiry = now + TOKEN_EXPIRY_MINUTES
        /\ ValidateResult(users, now, users[i].reset_token).ret.ok
        /\ ValidateResult(users, now, users[i].reset_token).ret.username = users[i].username

(* ------------------------------- C9 ------------------------------------- *)
InvalidToken == Fail("Invalid reset token")

\* User i holds a token and is issued another one now: afterwards, now or
\* after one of the Gaps, the first token is unknown to validate and to
\* reset_password with each password of pws, and the second one validates.
SecondTokenReplacesFirst(pws) ==
    \A i \in UserIdx :
        users[i].reset_token # None =>
            \A g \in {GenerateResult(users, tokens + 1, now, users[i].email)} :
                /\ ValidateResult(g.users, now, g.ret.token).ret.ok
                /\ \A d \in Gaps :
                      /\ ValidateResult(g.users, now + d, users[i].reset_token).ret = InvalidToken
                      /\ \A p \in pws :
                            ResetResult(g.users, now + d, users[i].reset_token, p).ret
                                = InvalidToken

\* C9 as stated: after a second generate_reset_token for the same user,
\* validate_reset_token and reset_password with the first token fail with
\* "Invalid reset token", whatever password reset_password is given, while
\* the second token validates.
C9_FirstTokenInvalidAnyPassword == SecondTokenReplacesFirst(Passwords)

\* C9 amended: at most one reset token per user is valid; after a second
\* generate_reset_token for the same user validate_reset_token with the
\* first token, and reset_password with the first token and a password that
\* passes the strength rules, fail with "Invalid reset token", while the
\* second token validates.  (A password that fails the rules gets the
\* strength reason.)
C9_FirstTokenInvalid ==
    /\ SecondTokenReplacesFirst({p \in Passwords : validate_password(p) = ""})
    /\ \A i \in UserIdx :
          Cardinality({t \in 1..tokens :
                         /\ ValidateResult(users, now, t).ret.ok
                         /\ ValidateResult(users, now, t).ret.username = users[i].username}) <= 1

\* Two tokens were issued to one user at time 0 (nothing has been reset or
\* swept, nobody holds token 1): the first is unknown, the second valid.
C9_Witness ==
    /\ now = 0 /\ tokens = 2
    /\ \A j \in UserIdx : users[j].reset_token # 1 /\ "last_modified" \notin DOMAIN users[j]
    /\ \E i \in UserIdx : users[i].reset_token = 2
    /\ ValidateResult(users, now, 1).ret = InvalidToken
    /\ ResetResult(users, now, 1, PwStrong1).ret = InvalidToken
    /\ ValidateResult(users, now, 2).ret.ok

(* ------------------------------- C10 ------------------------------------ *)
TokenExpired == Fail("Reset token has expired")

\* C10 as stated: validate_reset_token for a token a user holds returns
\* "Reset token has expired" whenever token_expiry is absent or
\* now >= token_expiry, the instant now = token_expiry included.
C10_ExpiredAtExpiryInstant ==
    \A i \in UserIdx :
        (/\ users[i].reset_token # None
         /\ (users[i].token_expiry = None \/ now >= users[i].token_expiry)) =>
            ValidateResult(users, now, users[i].reset_token).ret = TokenExpired

\* C10 amended: validate_reset_token for a token a user holds returns
\* "Reset token has expired" whenever token_expiry is absent or
\* now > token_expiry; at the instant now = token_expiry, and before it, the
\* token is accepted.
C10_ExpiredAfterExpiry ==
    \A i \in UserIdx :
        users[i].reset_token # None =>
            \A v \in {ValidateResult(users, now, users[i].reset_token).ret} :
                IF users[i].token_expiry = None \/ now > users[i].token_expiry
                THEN v = TokenExpired
                ELSE v.ok /\ v.username = users[i].username

\* A held token one minute or more past its expiry is refused as expired.
C10_Witness ==
    \E i \in UserIdx :
        /\ users[i].reset_token # None /\ users[i].token_expiry # None
        /\ now > users[i].token_expiry
        /\ ValidateResult(users, now, users[i].reset_token).ret = TokenExpired

(* ------------------------------- C11 ------------------------------------ *)
\* User i holds a token whose expiry lies before time t.
HoldsExpiredToken(user, t) ==
    user.reset_token # None /\ user.token_expiry # None /\ t > user.token_expiry

StrongPasswords == {p \in Passwords : validate_password(p) = ""}

\* At time t the token is refused on collection col with the given reason
\* by validate_reset_token and, for each password of pws, by reset_password,
\* and reset_password with any password fails and leaves col as it was.
TokenRefused(col, t, token, pws, reason) ==
    /\ ValidateResult(col, t, token).ret = reason
    /\ \A p \in Passwords :
          \A r \in {ResetResult(col, t, token, p)} :
              /\ ~r.ret.ok
              /\ r.users = col
              /\ p \in pws => r.ret = reason

\* C11 as stated: with a held token past its expiry, validate_reset_token
\* and reset_password (any password) both fail with "Reset token has
\* expired", before and after clear_expired_tokens has run, and
\* reset_password changes nothing.
C11_ExpiredTokenOneReason ==
    \A i \in UserIdx :
        HoldsExpiredToken(users[i], now) =>
            \A col \in {users, ClearResult(users, now).users} :
                TokenRefused(col, now, users[i].reset_token, Passwords, TokenExpired)

\* C11 amended: a held token past its expiry can never be used, now or
\* later, swept or not: validate_reset_token and reset_password both fail
\* and reset_password changes no field of any user.  While the token is
\* stored the reason is "Reset token has expired"; once
\* clear_expired_tokens has cleared it the reason is "Invalid reset token";
\* reset_password gives these reasons for a password that passes the
\* strength rules and the strength reason otherwise.
C11_ExpiredTokenNeverUsable ==
    \A i \in UserIdx :
        HoldsExpiredToken(users[i], now) =>
            \A swept \in {ClearResult(users, now).users} :
                /\ swept[i].reset_token = None
                /\ \A d \in Gaps :
                      /\ TokenRefused(users, now + d, users[i].reset_token,
                                      StrongPasswords, TokenExpired)
                      /\ TokenRefused(swept, now + d, users[i].reset_token,
                                      StrongPasswords, InvalidToken)

\* A user holds a token past its expiry that the sweep has not cleared:
\* reset_password with a strong password is refused as expired and leaves
\* the stored password as it was.
C11_Witness ==
    \E i \in UserIdx :
        /\ HoldsExpiredToken(users[i], now)
        /\ ResetResult(users, now, users[i].reset_token, PwStrong1).ret = TokenExpired
        /\ ResetResult(users, now, users[i].reset_token, PwStrong1).users[i].password
             = users[i].password

(* ------------------------------- C12 ------------------------------------ *)
\* Token values handed to validate_reset_token: the empty string, null,
\* every token issued so far and one never issued.
AnyToken == {None} \cup (0..(tokens + 1))

\* C12: validate_reset_token never changes the store: for every token
\* value (empty, null, unknown, expired or valid) the collection after the
\* call is the collection before it, and a second call at the same time
\* returns what the first returned.
C12_ValidateLeavesStore ==
    \A t \in AnyToken :
        \A v \in {ValidateResult(users, now, t)} :
            /\ v.users = users
            /\ ValidateResult(v.users, now, t).ret = v.ret

\* One user holds an expired token and another a valid one; validating
\* either leaves both in place.
C12_Witness ==
    \E i \in UserIdx : \E j \in UserIdx \ {i} :
        /\ HoldsExpiredToken(users[i], now)
        /\ users[j].reset_token # None /\ ValidateResult(users, now, users[j].reset_token).ret.ok
        /\ ValidateResult(users, now, users[i].reset_token).users = users
        /\ ValidateResult(users, now, users[j].reset_token).users = users

(* ------------------------------- C13 ------------------------------------ *)
\* User i holds a token that validate_reset_token accepts at time t.
HoldsValidToken(col, i, t) ==
    /\ col[i].reset_token # None
    /\ ValidateResult(col, t, col[i].reset_token).ret.ok
    /\ ValidateResult(col, t, col[i].reset_token).ret.username = col[i].username

\* reset_password with the valid token of active user i and each strong
\* password succeeds, stores the new hash, clears the token and the
\* lockout, and the new password then logs in (now or after one of the
\* Gaps); each password of olds (a set of the user's previous password)
\* is refused afterwards.
ResetThenLogin(i, olds(_)) ==
    \A p \in StrongPasswords :
        \A r \in {ResetResult(users, now, users[i].reset_token, p)} :
            /\ r.ret.ok
            /\ r.users[i].password = hash_password(p)
            /\ r.users[i].reset_token = None
            /\ r.users[i].token_expiry = None
            /\ r.users[i].is_locked = FALSE
            /\ r.users[i].failed_attempts = 0
            /\ r.users[i].lockout_until = None
            /\ \A d \in Gaps : AuthResult(r.users, now + d, users[i].username, p).ret.ok
            /\ \A o \in olds(p) :
                  ~AuthResult(r.users, now, users[i].username, o).ret.ok

OldPassword(i, p) == {RightPassword(users[i])}
OldPasswordIfOther(i, p) == {RightPassword(users[i])} \ {p}

\* C13 as stated: reset_password with an unexpired token held by user u and
\* any password meeting the strength rules succeeds, leaves the new hash
\* with cleared token and lockout fields, also for a user inside the lockout
\* window; afterwards the new password logs in and the old one fails.
C13_ResetThenOldFails ==
    \A i \in UserIdx :
        (HoldsValidToken(users, i, now) /\ users[i].status = "active") =>
            ResetThenLogin(i, LAMBDA p : OldPassword(i, p))

\* C13 amended: the same, the old password failing afterwards when the new
\* password differs from it (reset_password accepts the current password
\* as the new one, and then it still logs in).
C13_ResetThenLogin ==
    \A i \in UserIdx :
        (HoldsValidToken(users, i, now) /\ users[i].status = "active") =>
            ResetThenLogin(i, LAMBDA p : OldPasswordIfOther(i, p))

\* A user locked inside the lockout window holds a valid token;
\* reset_password with another strong password unlocks the account, the
\* new password logs in and the old one does not.
C13_Witness ==
    \E i \in UserIdx :
        /\ WindowOpen(users[i], now)
        /\ HoldsValidToken(users, i, now)
        /\ \E r \in {ResetResult(users, now, users[i].reset_token, PwStrong2)} :
              /\ r.ret.ok /\ ~r.users[i].is_locked
              /\ ~IsPasswordOf(PwStrong2, users[i])
              /\ AuthResult(r.users, now, users[i].username, PwStrong2).ret.ok
              /\ ~AuthResult(r.users, now, users[i].username, RightPassword(users[i])).ret.ok

(* ------------------------------- C14 ------------------------------------ *)
HeldTokens == {users[i].reset_token : i \in UserIdx} \ {None}

\* After a successful reset_password with the valid token of some user, the
\* token is refused, now and after each of the Gaps, by
\* validate_reset_token and by reset_password with each password of pws
\* with "Invalid reset token", and nothing is changed.
ConsumedTokenRefused(pws) ==
    \A i \in UserIdx :
        HoldsValidToken(users, i, now) =>
            \A p \in StrongPasswords :
                \A r \in {ResetResult(users, now, users[i].reset_token, p)} :
                    /\ r.ret.ok
                    /\ \A d \in Gaps :
                          TokenRefused(r.users, now + d, users[i].reset_token,
                                       pws, InvalidToken)

\* C14 as stated: after one successful reset_password(token, p) every later
\* validate_reset_token(token) and reset_password(token, p'), whatever p',
\* fails with "Invalid reset token" and changes nothing.
C14_ConsumedTokenAnyPassword == ConsumedTokenRefused(Passwords)

\* C14 amended: a reset token is single-use: after one successful
\* reset_password(token, p), validate_reset_token(token) and
\* reset_password(token, p') with p' meeting the strength rules fail with
\* "Invalid reset token", reset_password with a weaker p' fails with the
\* strength reason, and none changes anything.  This lasts through every
\* later call: tokens are issued fresh, so a token no user holds is never
\* stored again, and in every state each issued token that no user holds is
\* refused in this way.
C14_TokenSingleUse ==
    /\ ConsumedTokenRefused(StrongPasswords)
    /\ HeldTokens \subseteq 1..tokens
    /\ \A t \in (1..tokens) \ HeldTokens :
          TokenRefused(users, now, t, StrongPasswords, InvalidToken)

\* The account registered first had its password reset with the only
\* token issued so far; that token is now unknown.
C14_Witness ==
    /\ tokens = 1
    /\ \E i \in UserIdx :
          /\ users[i].username = Bob
          /\ users[i].password = hash_password(PwStrong1)
          /\ users[i].reset_token = None
    /\ ValidateResult(users, now, 1).ret = InvalidToken
    /\ ResetResult(users, now, 1, PwStrong2).ret = InvalidToken

(* ------------------------------- C15 ------------------------------------ *)
\* One password for each way of failing the strength rules.
PwNoLower == <<"S", "P", "0", "N", "S", "P", "!", "1">>
PwNoDigit == <<"S", "t", "r", "o", "n", "g", "!", "P">>
PwNoSymbol == <<"S", "t", "r", "0", "n", "g", "P", "S">>
WeakPasswords == {PwEmpty, PwShort, PwNoLower, PwNoUpper, PwNoDigit, PwNoSymbol}

\* The reason the rules give: emptiness, then length, then composition.
StrengthReason(p) ==
    IF Len(p) = 0 THEN "Password cannot be empty"
    ELSE IF Len(p) < PASSWORD_MIN_LENGTH THEN "Password must be at least 8 characters"
    ELSE "Password must contain at least one uppercase letter, one lowercase letter, one number, and one special character"

\* C15: for every password failing the strength rules (empty, too short,
\* no lowercase letter, no uppercase letter, no digit, no allowed symbol),
\* create_user with a valid unused username and email, and reset_password
\* with any token (empty, null, unknown, expired or valid), fail with the
\* strength reason (for reset_password whatever the state of the token)
\* and leave the collection as it was.
C15_WeakPasswordRefused ==
    /\ Len(NewName) >= 3 /\ validate_email(EmailNew)
    /\ NewName \notin StoredNames /\ EmailNew \notin StoredEmails
    /\ \A p \in WeakPasswords :
          /\ \A c \in {CreateResult(users, uuids + 1, now, NewName, p, EmailNew,
                                    NewName, "teacher")} :
                c.ret = Fail(StrengthReason(p)) /\ c.users = users
          /\ \A t \in AnyToken :
                \A r \in {ResetResult(users, now, t, p)} :
                    r.ret = Fail(StrengthReason(p)) /\ r.users = users

\* One user holds a valid token and another an expired one; with a
\* password lacking a digit reset_password gives the strength reason for
\* both tokens and for an unknown one.
C15_Witness ==
    \E i \in UserIdx : \E j \in UserIdx \ {i} :
        /\ HoldsValidToken(users, i, now)
        /\ HoldsExpiredToken(users[j], now)
        /\ \A t \in {users[i].reset_token, users[j].reset_token, tokens + 1} :
              /\ ResetResult(users, now, t, PwNoDigit).ret = Fail(StrengthReason(PwNoDigit))
              /\ ResetResult(users, now, t, PwNoDigit).users = users

(* ------------------------------- C16 ------------------------------------ *)
\* The arguments create_user is tried with.
AnyName == Usernames \cup {NewName}
AnyEmail == Emails \cup {EmailNew}
AnyPassword == Passwords \cup WeakPasswords
Roles == {"teacher", "admin"}

\* C16: no two stored users share a username or an email, and create_user
\* with the username or the email of a stored user fails and inserts
\* nothing, whatever the other arguments are.
C16_NoDuplicateUser ==
    /\ \A i \in UserIdx : \A j \in UserIdx \ {i} :
          users[i].username # users[j].username /\ users[i].email # users[j].email
    /\ \A u \in AnyName, e \in AnyEmail :
          (u \in StoredNames \/ e \in StoredEmails) =>
              \A p \in AnyPassword, role \in Roles :
                  \A c \in {CreateResult(users, uuids + 1, now, u, p, e, u, role)} :
                      ~c.ret.ok /\ c.users = users

\* Two users are stored; a new username with the email of one of them and
\* the username of one of them with a new email are both refused.
C16_Witness ==
    /\ Len(users) = 2
    /\ \E i \in UserIdx :
          /\ CreateResult(users, uuids + 1, now, NewName, PwStrong1, users[i].email,
                          NewName, "teacher").ret = Fail("Email already exists")
          /\ CreateResult(users, uuids + 1, now, users[i].username, PwStrong1, EmailNew,
                          NewName, "teacher").ret = Fail("Username already exists")

(* ------------------------------- C17 ------------------------------------ *)
\* The reason of the earliest violated rule, "" when no rule is violated.
FirstViolatedRule(u, p, e) ==
    IF Len(u) < 3 THEN "Username must be at least 3 characters"
    ELSE IF ~validate_email(e) THEN "Invalid email format"
    ELSE IF u \in StoredNames THEN "Username already exists"
    ELSE IF e \in StoredEmails THEN "Email already exists"
    ELSE IF p \in WeakPasswords THEN StrengthReason(p)
    ELSE ""

\* C17: create_user checks username length, email format, username not
\* taken, email not taken, password strength in this order: the reason
\* returned is the one of the earliest violated rule, and the call succeeds
\* exactly when no rule is violated.
C17_CreateValidationOrder ==
    \A u \in AnyName, p \in AnyPassword, e \in AnyEmail :
        \A c \in {CreateResult(users, uuids + 1, now, u, p, e, u, "teacher")} :
            IF FirstViolatedRule(u, p, e) = "" THEN c.ret.ok
            ELSE c.ret = Fail(FirstViolatedRule(u, p, e))

\* Two users are stored and calls violating several rules at once get the
\* reason of the earliest: every rule; email format, email taken and
\* strength; username taken, email taken and strength; email taken and
\* strength.
C17_Witness ==
    /\ StoredNames = {Alice, Bob} /\ StoredEmails = {EmailA, EmailB}
    /\ CreateResult(users, uuids + 1, now, ShortName, PwShort, EmailBad, ShortName,
                    "teacher").ret = Fail("Username must be at least 3 characters")
    /\ CreateResult(users, uuids + 1, now, Alice, PwShort, EmailBad, Alice,
                    "teacher").ret = Fail("Invalid email format")
    /\ CreateResult(users, uuids + 1, now, Alice, PwShort, EmailB, Alice,
                    "teacher").ret = Fail("Username already exists")
    /\ CreateResult(users, uuids + 1, now, NewName, PwShort, EmailB, NewName,
                    "teacher").ret = Fail("Email already exists")

(* ------------------------------- C18 ------------------------------------ *)
\* C18: a successful create_user appends exactly one document, with
\* status active, failed_attempts 0, is_locked false, lockout_until,
\* last_login, reset_token and token_expiry null and the hash of the given
\* password, leaving the stored documents as they were, and authenticate
\* with the same username and password right after succeeds; a create_user
\* that fails leaves the collection as it was.
C18_CreateStoresUsableUser ==
    \A u \in AnyName, p \in AnyPassword, e \in AnyEmail :
        \A c \in {CreateResult(users, uuids + 1, now, u, p, e, u, "teacher")} :
            IF c.ret.ok
            THEN /\ Len(c.users) = Len(users) + 1
                 /\ SubSeq(c.users, 1, Len(users)) = users
                 /\ \A d \in {c.users[Len(c.users)]} :
                       /\ d.username = u /\ d.email = e
                       /\ d.status = "active"
                       /\ d.failed_attempts = 0
                       /\ d.is_locked = FALSE
                       /\ d.lockout_until = None
                       /\ d.last_login = None
                       /\ d.reset_token = None
                       /\ d.token_expiry = None
                       /\ d.password = hash_password(p)
                       /\ verify_password(p, d.password)
                 /\ AuthResult(c.users, now, u, p).ret.ok
            ELSE c.users = users

\* The account registered a moment ago, after the first one and without
\* touching it, has never logged in; its password logs in, and a second
\* registration under its name changes nothing.
C18_Witness ==
    /\ Len(users) = 2 /\ now > 0
    /\ users[1] = NewUser(1, 0, Bob, PwStrong2, EmailB, Bob, "admin")
    /\ users[2] = NewUser(2, now, Alice, PwStrong1, EmailA, Alice, "teacher")
    /\ AuthResult(users, now, Alice, PwStrong1).ret.ok
    /\ CreateResult(users, uuids + 1, now, Alice, PwStrong2, EmailNew, Alice, "teacher").users
         = users

(* ------------------------------- C19 ------------------------------------ *)
\* C19: a session refresh, authenticate(username, null), never changes
\* the store: whatever the state of the user, a lock whose lockout_until
\* has passed included, every field of every user is after the call what
\* it was before.
C19_SessionRefreshLeavesStore ==
    \A u \in StoredNames \cup {ShortName} :
        AuthResult(users, now, u, PwNone).users = users

(* ------------------------------- C20 ------------------------------------ *)
\* C20 (checked on the collection holding a deactivated account): for a
\* user whose status is not active, authenticate made outside an open
\* lockout window fails with "Account is inactive" for every password,
\* right, wrong or null; it never raises failed_attempts and never locks
\* the account: the collection is left as it was, except that a lock whose
\* lockout_until has passed is lifted as for any user.  Inside an open
\* window the call stops at the lockout step.
C20_InactiveRefused ==
    \A i \in UserIdx :
        users[i].status # "active" =>
            \A p \in Passwords \cup {PwNone} :
                \A a \in {AuthResult(users, now, users[i].username, p)} :
                    IF WindowOpen(users[i], now)
                    THEN a.ret = FailLocked(users[i].lockout_until) /\ a.users = users
                    ELSE /\ a.ret = Fail("Account is inactive")
                         /\ a.users[i].failed_attempts <= users[i].failed_attempts
                         /\ ~a.users[i].is_locked
                         /\ a.users[i].lockout_until = None
                         /\ a.users = IF users[i].is_locked
                                      THEN [users EXCEPT ![i] = ApplySet(users[i], LiftSet)]
                                      ELSE users

\* A deactivated account whose lockout has run out: a wrong password is
\* answered with "Account is inactive", the lapsed lock is lifted and the
\* account is not locked again.
C20_Witness ==
    \E i \in UserIdx : \E p \in WrongPasswords(users[i]) :
        /\ users[i].status = "inactive"
        /\ LockExpired(users[i], now)
        /\ AuthResult(users, now, users[i].username, p).ret = Fail("Account is inactive")
        /\ ~AuthResult(users, now, users[i].username, p).users[i].is_locked
        /\ AuthResult(users, now, users[i].username, p).users[i].failed_attempts = 0

(* ------------------------------- C21 ------------------------------------ *)
\* C21: the reason authenticate returns for a username nobody holds is
\* the reason it returns for an existing, active, unlocked user with a
\* wrong password (one that does not lock the account), so the result
\* does not tell whether the username or the password was wrong.
C21_SameReasonUnknownOrWrong ==
    \A i \in UserIdx : \A u \in AnyName \ StoredNames :
        (Fresh(users[i]) /\ MAX_LOGIN_ATTEMPTS > 1) =>
            \A p \in WrongPasswords(users[i]) :
                AuthResult(users, now, u, p).ret
                    = AuthResult(users, now, users[i].username, p).ret

(* ------------------------------- C22 ------------------------------------ *)
\* The collection with user i deactivated.
Deactivated(col, i) == [col EXCEPT ![i].status = "inactive"]
NewPasswords == {PwStrong1, PwStrong2, PwShort}

\* C22: change_password with a wrong current password fails with "Current
\* password is incorrect", leaves the stored hash as it was and changes the
\* collection exactly as one authenticate with that password does: on an
\* active user outside an open lockout window failed_attempts goes up by
\* one and the account is locked, until now + lockout duration, exactly
\* when the count has reached MAX_LOGIN_ATTEMPTS; inside an open window
\* nothing changes; on a deactivated account the call fails and the hash
\* stays.
C22_WrongCurrentCountsAsFailure ==
    \A i \in UserIdx : \A col \in {users, Deactivated(users, i)} :
        \A p \in WrongPasswords(users[i]), q \in NewPasswords :
            \A c \in {ChangeResult(col, now, col[i].username, p, q)} :
                /\ c.ret = Fail("Current password is incorrect")
                /\ c.users[i].password = col[i].password
                /\ c.users = AuthResult(col, now, col[i].username, p).users
                /\ WindowOpen(col[i], now) => c.users = col
                /\ (~WindowOpen(col[i], now) /\ col[i].status = "active") =>
                      /\ c.users[i].failed_attempts = col[i].failed_attempts + 1
                      /\ c.users[i].is_locked
                            <=> (c.users[i].failed_attempts >= MAX_LOGIN_ATTEMPTS)
                      /\ c.users[i].lockout_until =
                            IF c.users[i].is_locked THEN now + LOCKOUT_DURATION_MINUTES
                                                    ELSE None

\* A user one failure short of the maximum: change_password with a wrong
\* current password locks the account and keeps the hash.
C22_Witness ==
    \E i \in UserIdx : \E p \in WrongPasswords(users[i]) :
        /\ users[i].failed_attempts = MAX_LOGIN_ATTEMPTS - 1 /\ ~users[i].is_locked
        /\ \E c \in {ChangeResult(users, now, users[i].username, p, PwStrong2)} :
              /\ ~c.ret.ok
              /\ c.users[i].is_locked
              /\ c.users[i].failed_attempts = MAX_LOGIN_ATTEMPTS
              /\ c.users[i].password = users[i].password

(* ------------------------------- C23 ------------------------------------ *)
LockoutFields(doc) == <<doc.failed_attempts, doc.is_locked, doc.lockout_until>>
ResetTokenFields(doc) == <<doc.reset_token, doc.token_expiry>>

\* A successful change_password on user i stores the new hash and
\* last_modified = now and keeps the reset-token fields; lockout(i, c) says
\* what becomes of the lockout fields.
ChangeKeeps(lockout(_, _)) ==
    \A i \in UserIdx : \A p \in Passwords, q \in NewPasswords :
        \A c \in {ChangeResult(users, now, users[i].username, p, q)} :
            c.ret.ok =>
                /\ c.users[i].password = hash_password(q)
                /\ c.users[i].last_modified = now
                /\ ResetTokenFields(c.users[i]) = ResetTokenFields(users[i])
                /\ lockout(i, c)

LockoutAsBefore(i, c) == LockoutFields(c.users[i]) = LockoutFields(users[i])
LockoutAsAfterLogin(i, c) ==
    /\ LockoutFields(c.users[i]) = <<0, FALSE, None>>
    /\ c.users[i].last_login = now
    /\ users[i].failed_attempts = 0 => LockoutFields(c.users[i]) = LockoutFields(users[i])

\* C23 as stated: a successful change_password sets the hash and
\* last_modified and leaves failed_attempts, is_locked, lockout_until,
\* reset_token and token_expiry of the user as they were before the call.
C23_ChangeKeepsLockoutFields == ChangeKeeps(LockoutAsBefore)

\* C23 amended: a successful change_password sets the hash and
\* last_modified = now and leaves reset_token and token_expiry as they
\* were; the lockout fields are left as its successful authenticate step
\* leaves them, failed_attempts = 0, is_locked = false, lockout_until =
\* null (their values before the call when no failure was counted), and
\* last_login = now.
C23_ChangeKeepsTokenFields == ChangeKeeps(LockoutAsAfterLogin)

\* A user with a failure counted and a reset token held changes the
\* password: the token stays, the counter is back to 0.
C23_Witness ==
    \E i \in UserIdx :
        /\ users[i].failed_attempts > 0 /\ users[i].reset_token # None
        /\ \E c \in {ChangeResult(users, now, users[i].username, RightPassword(users[i]),
                                  PwStrong2)} :
              /\ c.ret.ok
              /\ c.users[i].reset_token = users[i].reset_token
              /\ c.users[i].failed_attempts = 0
              /\ c.users[i].password = hash_password(PwStrong2)

(* ------------------------------- C25 ------------------------------------ *)
TokenPassed(doc, t) == doc.token_expiry # None /\ doc.token_expiry < t

\* C25: after clear_expired_tokens every user whose token_expiry was
\* earlier than now has reset_token and token_expiry null and is otherwise
\* as before; every user whose token_expiry is null or not yet passed
\* (now included) is unchanged; no user is added or removed.
C25_SweepClearsExpiredOnly ==
    \A r \in {ClearResult(users, now).users} :
        /\ Len(r) = Len(users)
        /\ \A i \in UserIdx :
              r[i] = IF TokenPassed(users[i], now)
                     THEN [users[i] EXCEPT !.reset_token = None, !.token_expiry = None]
                     ELSE users[i]

\* One user holds a token past its expiry and another a token expiring
\* this very minute: the sweep clears the first and keeps the second.
C25_Witness ==
    \E i \in UserIdx : \E j \in UserIdx \ {i} :
        /\ TokenPassed(users[i], now)
        /\ users[j].reset_token # None /\ users[j].token_expiry = now
        /\ \E r \in {ClearResult(users, now).users} :
              /\ r[i].reset_token = None /\ r[i].token_expiry = None
              /\ r[j] = users[j]

(* ------------------------------- C28 ------------------------------------ *)
FixedFields == {"username", "user_id", "email", "role", "status", "created_at"}

\* C28: no step deletes a user or changes the username, user_id, email,
\* role, status or created_at of a stored user: every step leaves each
\* stored document in its place with these fields as they were, so the set
\* of stored usernames only grows.
C28_IdentityFieldsFixed ==
    [][/\ Len(users') >= Len(users)
       /\ \A i \in 1..Len(users) : \A f \in FixedFields : users'[i][f] = users[i][f]
       /\ {users[i].username : i \in 1..Len(users)}
             \subseteq {users'[i].username : i \in 1..Len(users')}]_vars

\* A user registered earlier who has since logged in, changed or reset the
\* password and been locked out still carries the fields of registration.
C28_Witness ==
    \E i \in UserIdx :
        /\ users[i].username = Alice /\ users[i].user_id = 2
        /\ users[i].email = EmailA /\ users[i].role = "teacher"
        /\ users[i].status = "active" /\ users[i].created_at < now
        /\ "last_modified" \in DOMAIN users[i]
        /\ users[i].last_login # None
        /\ users[i].is_locked

(* ------------------------------- C24 ------------------------------------ *)
\* C24: no public operation raises to its caller: whichever store call of
\* create_user, authenticate_user, change_password, generate_reset_token,
\* validate_reset_token, reset_password or clear_expired_tokens fails, the
\* operation returns its failure value (clear_expired_tokens returns
\* silently).
C24_NoOperationRaises ==
    /\ \A r \in Registrations :
          \A o \in {CreateResult(users, uuids + 1, now, r[1], r[2], r[3], r[1], "teacher")} :
              \A k \in StoreCalls(o) : CreateFault(o, k) # Raised
    /\ \A u \in AnyName, p \in Passwords \cup {PwNone} :
          /\ \A o \in {AuthResult(users, now, u, p)} :
                \A k \in StoreCalls(o) : AuthFault(o, k) # Raised
          /\ \A o \in {ChangeResult(users, now, u, p, PwStrong2)} :
                \A k \in StoreCalls(o) : ChangeFault(o, k) # Raised
    /\ \A e \in Emails :
          \A o \in {GenerateResult(users, tokens + 1, now, e)} :
              \A k \in StoreCalls(o) : GenerateFault(o, k) # Raised
    /\ \A t \in AnyToken :
          /\ \A o \in {ValidateResult(users, now, t)} :
                \A k \in StoreCalls(o) : ValidateFault(o, k) # Raised
          /\ \A o \in {ResetResult(users, now, t, PwStrong1)} :
                \A k \in StoreCalls(o) : ResetFault(o, k) # Raised
    /\ \A o \in {ClearResult(users, now)} :
          \A k \in StoreCalls(o) : ClearFault(o, k) # Raised

(* ------------------------------- C29 ------------------------------------ *)
ValidEmails == {e \in AnyEmail : validate_email(e)}

\* C29: for every submitted email that passes the format check the
\* forgot-password form ends with forgot_password_sent = true and
\* forgot_password_email = the submitted address and shows no error,
\* whether or not a user has the email, whether or not email sending is
\* configured and whether or not delivery succeeded.
C29_ForgotPasswordSameOutcome ==
    \A e \in ValidEmails : \A configured \in BOOLEAN, sent \in BOOLEAN :
        \A f \in {ForgotSubmit(users, tokens + 1, now, e, configured, sent)} :
            f.session = Sent(e) /\ f.error = ""

\* An email a user has and one nobody has are submitted: a token is stored
\* for the first and nothing for the second, and both end on the same
\* page.
C29_Witness ==
    \E e \in StoredEmails : \E n \in ValidEmails \ StoredEmails :
        /\ ForgotSubmit(users, tokens + 1, now, e, TRUE, TRUE).users # users
        /\ ForgotSubmit(users, tokens + 1, now, n, TRUE, FALSE).users = users
        /\ ForgotSubmit(users, tokens + 1, now, e, TRUE, TRUE).session.forgot_password_sent
        /\ ForgotSubmit(users, tokens + 1, now, n, TRUE, FALSE).session.forgot_password_sent
        /\ Len(users) = 2

(* ------------------------------- C30 ------------------------------------ *)
\* The digests handed to verify_password: the stored digest of each user
\* and the same digest in the legacy format and in no known format.
Digests ==
    UNION {{[scheme |-> f, of |-> users[i].password.of] : f \in {"bcrypt", "pbkdf2", "other"}} :
              i \in UserIdx}

\* C30: verify_password never aborts its caller: in both configurations
\* it returns true or false for every digest, whether or not the legacy
\* comparison raises; verify(p, hash(p)) is true and verify(q, hash(p)) is
\* false for q different from p; a digest of no known format gives false.
C30_VerifyNeverAborts ==
    \A b \in BOOLEAN, raises \in BOOLEAN :
        /\ \A p \in Passwords, d \in Digests :
              VerifyIn(b, p, d, raises) \in {"true", "false"}
        /\ \A i \in UserIdx, q \in Passwords :
              VerifyIn(b, q, HashIn(b, RightPassword(users[i])), FALSE)
                  = IF q = RightPassword(users[i]) THEN "true" ELSE "false"
        /\ \A p \in Passwords, d \in Digests :
              d.scheme = "other" => VerifyIn(b, p, d, raises) = "false"

(* ------------------------------- C26 ------------------------------------ *)
\* The comparisons made up to the write that first locked the account, or
\* so far when no write has locked it.
ComparedBeforeLock == IF hist.first_lock = None THEN hist.compared ELSE hist.first_lock

\* C26 (concurrent authenticate calls, each a read followed later by a
\* write): with wrong passwords only, against an account that starts
\* unlocked, the number of calls whose password is compared with the
\* stored hash before the account is locked exceeds MAX_LOGIN_ATTEMPTS by
\* at most one.
C26_AtMostOneExtraGuess ==
    hist.rights = 0 => ComparedBeforeLock <= MAX_LOGIN_ATTEMPTS + 1

(* ------------------------------- C27 ------------------------------------ *)
\* No two entries of the sequence s agree in component k.
Distinct(s, k) == \A i \in 1..Len(s) : \A j \in 1..Len(s) : i # j => s[i][k] # s[j][k]

\* C27 (concurrent create_user calls, their look-ups and inserts
\* interleaved, on the document database and on the JSON files): of the
\* calls with one username, or with one email, at most one returns
\* success, and the collection never holds two documents with the same
\* username or the same email.
C27_UniqueUnderConcurrency ==
    /\ Distinct(hist.created, 1) /\ Distinct(hist.created, 2)
    /\ \A i \in UserIdx : \A j \in UserIdx \ {i} :
          users[i].username # users[j].username /\ users[i].email # users[j].email

(* ------------------------------- C33 ------------------------------------ *)
\* The store writes among the entries of an access log.
Writes(log) == {k \in 1..Len(log) : log[k].ev \in {"update_one", "insert_one", "update_many"}}

\* The store reads among the entries of an access log.
Reads(log) == {k \in 1..Len(log) : log[k].ev = "find_one"}

\* The stored user named u is locked and the lockout window has passed.
LockLapsed(u, t) ==
    LET i == find_one(users, "username", u)
    IN  i # 0 /\ users[i].is_locked /\ ~WindowOpen(users[i], t)

\* C33 as stated: every authenticate_user call, for every state of the
\* user and every password, makes one read of the user and after it at
\* most one write, also on a locked user whose lockout_until has passed.
C33_OneReadAtMostOneWrite ==
    \A u \in StoredNames \cup {NewName} : \A p \in Passwords \cup {PwNone} :
        \A a \in {AuthResult(users, now, u, p)} :
            /\ a.log[1].ev = "find_one"
            /\ Cardinality(Writes(a.log)) <= 1

\* C33 amended: every authenticate_user call makes one read of the user,
\* first, and after it at most one write; except on a locked user whose
\* lockout_until has passed, where the write lifting the lock (is_locked
\* false, failed_attempts 0, lockout_until null) follows the read and at
\* most one more write follows that.
C33_OneReadThenLiftAndOneWrite ==
    \A u \in StoredNames \cup {NewName} : \A p \in Passwords \cup {PwNone} :
        \A a \in {AuthResult(users, now, u, p)} :
            /\ a.log[1].ev = "find_one"
            /\ Reads(a.log) = {1}
            /\ IF LockLapsed(u, now)
               THEN /\ a.log[2] = Update("username", u,
                                         [is_locked |-> FALSE, failed_attempts |-> 0,
                                          lockout_until |-> None])
                    /\ Cardinality(Writes(a.log)) <= 2
               ELSE Cardinality(Writes(a.log)) <= 1

\* A user whose lockout has just passed: the call with a wrong password
\* reads, lifts the lock and writes the failure.
C33_Witness ==
    \E i \in UserIdx :
        /\ LockLapsed(users[i].username, now)
        /\ \E a \in {AuthResult(users, now, users[i].username, PwShort)} :
              /\ Len(a.log) = 4
              /\ Writes(a.log) = {2, 4}

(* ------------------------------- C34 ------------------------------------ *)
\* C34 as stated: create_user with a too-short username, a malformed
\* email or a password failing the strength rules, change_password with a
\* new password failing them and reset_password with a password failing
\* them all fail without a store read or write.
C34_ValidationBeforeStore ==
    /\ \A u \in AnyName, e \in AnyEmail, p \in AnyPassword :
          (Len(u) < 3 \/ ~validate_email(e) \/ validate_password(p) # "") =>
              \A c \in {CreateResult(users, uuids + 1, now, u, p, e, u, "teacher")} :
                  ~c.ret.ok /\ c.log = <<>>
    /\ \A i \in UserIdx : \A cur \in Passwords, p \in WeakPasswords :
          \A c \in {ChangeResult(users, now, users[i].username, cur, p)} :
              ~c.ret.ok /\ c.log = <<>>
    /\ \A t \in AnyToken, p \in WeakPasswords :
          \A r \in {ResetResult(users, now, t, p)} :
              ~r.ret.ok /\ r.log = <<>>

\* C34 amended: create_user with a too-short username or a malformed
\* email, and reset_password with a password failing the strength rules,
\* fail without a store read or write; create_user with a well-formed
\* username and email and a password failing the rules fails after its
\* look-ups without a write; change_password with a new password failing
\* the rules fails with no store access beyond that of its
\* authenticate_user call.
C34_ValidationBeforeWrite ==
    /\ \A u \in AnyName, e \in AnyEmail, p \in AnyPassword :
          \A c \in {CreateResult(users, uuids + 1, now, u, p, e, u, "teacher")} :
              /\ (Len(u) < 3 \/ ~validate_email(e)) => ~c.ret.ok /\ c.log = <<>>
              /\ validate_password(p) # "" =>
                    ~c.ret.ok /\ Writes(c.log) = {} /\ c.users = users
    /\ \A i \in UserIdx : \A cur \in Passwords, p \in WeakPasswords :
          \A c \in {ChangeResult(users, now, users[i].username, cur, p)} :
              \A a \in {AuthResult(users, now, users[i].username, cur)} :
                  ~c.ret.ok /\ c.log = a.log /\ c.users = a.users
    /\ \A t \in AnyToken, p \in WeakPasswords :
          \A r \in {ResetResult(users, now, t, p)} :
              ~r.ret.ok /\ r.log = <<>> /\ r.users = users

\* A user holds a valid token: reset_password with a short password is
\* refused without touching the store, while create_user with the same
\* password and a new name and email is refused after its two look-ups.
C34_Witness ==
    \E i \in UserIdx :
        /\ HoldsValidToken(users, i, now)
        /\ ResetResult(users, now, users[i].reset_token, PwShort)
              = Out(users, Fail(validate_password(PwShort)), <<>>)
        /\ \E c \in {CreateResult(users, uuids + 1, now, NewName, PwShort, EmailNew,
                                  NewName, "teacher")} :
              /\ c.ret = Fail(validate_password(PwShort))
              /\ Reads(c.log) = {1, 2}

(* ------------------------------- C37 ------------------------------------ *)
\* C37: while a user is locked and now < lockout_until, authenticate_user
\* with the right password, a wrong one or none fails with the lockout
\* message naming the stored lockout_until and leaves the collection as it
\* was (failed_attempts is not incremented, lockout_until not extended).
C37_LockedCallsChangeNothing ==
    \A i \in UserIdx :
        WindowOpen(users[i], now) =>
            \A p \in Passwords \cup {PwNone} :
                \A a \in {AuthResult(users, now, users[i].username, p)} :
                    /\ a.ret = FailLocked(users[i].lockout_until)
                    /\ a.users = users

\* One minute into the lockout window: the right password, a wrong one and
\* the session check are all refused and the record stays as it was.
C37_Witness ==
    \E i \in UserIdx :
        /\ WindowOpen(users[i], now)
        /\ now = users[i].lockout_until - LOCKOUT_DURATION_MINUTES + 1
        /\ users[i].failed_attempts = MAX_LOGIN_ATTEMPTS
        /\ \A p \in {RightPassword(users[i]), PwShort, PwNone} :
              /\ AuthResult(users, now, users[i].username, p).ret
                    = FailLocked(users[i].lockout_until)
              /\ AuthResult(users, now, users[i].username, p).users = users

(* ------------------------------- C40 ------------------------------------ *)
\* What the credential events on user i leave: authenticate_user with each
\* password (success, counted failure, lockout) and change_password with
\* each current and new password.
CredentialEvents(i) ==
    {AuthResult(users, now, users[i].username, p) : p \in Passwords}
    \cup {ChangeResult(users, now, users[i].username, cur, p) :
            cur \in Passwords, p \in NewPasswords}

\* C40: a valid reset token of a user survives that user's successful
\* authenticate_user, failed authenticate_user, lockout and successful
\* change_password: the token and its expiry stay as issued,
\* validate_reset_token accepts it until the expiry, and reset_password
\* with it then succeeds and stores the hash of its password over the one
\* change_password set.
C40_TokenSurvivesCredentialEvents ==
    \A i \in UserIdx :
        HoldsValidToken(users, i, now) =>
            \A e \in CredentialEvents(i) :
                /\ e.users[i].reset_token = users[i].reset_token
                /\ e.users[i].token_expiry = users[i].token_expiry
                /\ \A t \in now..users[i].token_expiry :
                      /\ ValidateResult(e.users, t, users[i].reset_token).ret.ok
                      /\ \A p \in StrongPasswords :
                            \A r \in {ResetResult(e.users, t, users[i].reset_token, p)} :
                                r.ret.ok /\ r.users[i].password = hash_password(p)

\* A user changed the password after the token was issued and still holds
\* the token; reset_password with it replaces the changed password.
C40_Witness ==
    \E i \in UserIdx :
        /\ HoldsValidToken(users, i, now)
        /\ "last_modified" \in DOMAIN users[i]
        /\ users[i].last_modified > users[i].token_expiry - TOKEN_EXPIRY_MINUTES
        /\ \E p \in StrongPasswords :
              /\ ~IsPasswordOf(p, users[i])
              /\ \E r \in {ResetResult(users, now, users[i].reset_token, p)} :
                    r.ret.ok /\ IsPasswordOf(p, r.users[i])

(* ------------------------------- C39 ------------------------------------ *)
\* C39 (concurrent authenticate_user calls on one user, right and wrong
\* passwords, reads and writes interleaved): in every stored state
\* is_locked implies a non-null lockout_until and failed_attempts >=
\* MAX_LOGIN_ATTEMPTS, and the write of a successful login never leaves
\* the account flagged locked.
C39_LockFieldsConsistentUnderRace ==
    /\ \A i \in UserIdx :
          users[i].is_locked =>
              /\ users[i].lockout_until # None
              /\ users[i].failed_attempts >= MAX_LOGIN_ATTEMPTS
    /\ ~hist.ok_left_locked

(* ------------------------------- C38 ------------------------------------ *)
\* C38 (concurrent reset_password and generate_reset_token calls, reads
\* and writes interleaved): a reset_password call returns success only if
\* its update was applied to the holder of the token, at most one
\* reset_password call per issued token returns success, and when a call
\* returns success the holder's stored password is the hash of that
\* call's password once its write is done.
C38_ResetSuccessMeansApplied ==
    /\ ~hist.unapplied
    /\ ~hist.other_password
    /\ \A t \in DOMAIN hist.ok : hist.ok[t] <= 1

(* ------------------------------- C31 ------------------------------------ *)
\* The document has every key of the filter with the filter's value.
Fits(d, filt) == \A kv \in filt : kv[1] \in DOMAIN d /\ d[kv[1]] = kv[2]

\* The value the file holds for a value written under key k.
Written(k, v) == IF k \in DateKeys /\ IsDatetime(v) THEN Str(v) ELSE v

\* Document w is document d with the keys of set overwritten or added.
IsUpdated(w, d, set) ==
    /\ DOMAIN w = DOMAIN d \cup DOMAIN set
    /\ \A k \in DOMAIN set : w[k] = Written(k, set[k])
    /\ \A k \in DOMAIN d \ DOMAIN set : w[k] = d[k]

\* Document w is the filter merged with set.
IsUpsert(w, filt, set) ==
    /\ DOMAIN w = {kv[1] : kv \in filt} \cup DOMAIN set
    /\ \A k \in DOMAIN set : w[k] = Written(k, set[k])
    /\ \A kv \in filt : kv[1] \notin DOMAIN set => w[kv[1]] = kv[2]

\* C31: on the file-backed store, for a file with and without expiring
\* documents and the documents l it holds when update_one loads it:
\* update_one(filter, {"$set": set}) overwrites the keys of set in the
\* first document of l (in insertion order) that matches every equality of
\* the filter and leaves every other document, later matches included, as
\* it is; with no match and upsert false the documents stay as they are,
\* and with no match and upsert true one document, the filter merged with
\* set, is appended.
C31_UpdateOneFirstMatchOnly ==
    \A path \in {"sessions.json", "attendance.json"} :
        \A l \in {SimpleCol_load(path, sessions, now)} :
            \A filt \in SessionFilters, set \in SessionSets, upsert \in BOOLEAN :
                \A r \in {SimpleCol_update_one(path, sessions, now, filt, set, upsert).file} :
                    LET M == {i \in 1..Len(l) : Fits(l[i], filt)}
                    IN  IF M # {} THEN
                            /\ Len(r) = Len(l)
                            /\ \A i \in 1..Len(l) :
                                  IF i \in M /\ \A j \in M : i <= j
                                  THEN IsUpdated(r[i], l[i], set)
                                  ELSE r[i] = l[i]
                        ELSE IF upsert THEN
                            /\ Len(r) = Len(l) + 1
                            /\ SubSeq(r, 1, Len(l)) = l
                            /\ IsUpsert(r[Len(r)], filt, set)
                        ELSE r = l

\* Two sessions that never expire have the same session_id; update_one by
\* that id has given the first one a new owner and left the second.
C31_Witness ==
    /\ Len(sessions) = 2
    /\ DOMAIN sessions[1] = {"session_id", "created_by"}
    /\ DOMAIN sessions[2] = {"session_id", "created_by"}
    /\ sessions[1].session_id = sessions[2].session_id
    /\ sessions[1].created_by = 2
    /\ sessions[2].created_by = 1

(* ------------------------------- C32 ------------------------------------ *)
\* At time t the document's expires_at is in the past; the document has no
\* expires_at or one in the future.
Past(d, t) == "expires_at" \in DOMAIN d /\ Minute(d.expires_at) < t
Lasting(d, t) == "expires_at" \notin DOMAIN d \/ Minute(d.expires_at) > t
NoPast(data, t) == \A i \in 1..Len(data) : ~Past(data[i], t)
Has(data, d) == \E i \in 1..Len(data) : data[i] = d
\* The stored sessions that are not past and match the filter.
Current(filt) == {i \in 1..Len(sessions) : ~Past(sessions[i], now) /\ Fits(sessions[i], filt)}

\* C32: on the file of the sessions collection a document whose expires_at
\* is in the past is not returned by find_one or find, not counted by
\* count_documents, not updated by update_one or update_many nor counted
\* as deleted by delete_many, and the file no longer holds it after the
\* next operation of any kind; a document without expires_at or with a
\* future expires_at is dropped by no operation other than a delete_many
\* that matches it.
C32_ExpiredHiddenAndPurged ==
    /\ \A filt \in SessionFilters :
          /\ \A r \in {SimpleCol_find_one("sessions.json", sessions, now, filt)} :
                /\ NoPast(r.ret, now) /\ NoPast(r.file, now)
                /\ \A i \in 1..Len(sessions) :
                      Lasting(sessions[i], now) => Has(r.file, sessions[i])
          /\ \A r \in {SimpleCol_find("sessions.json", sessions, now, filt)} :
                /\ NoPast(r.ret, now) /\ NoPast(r.file, now)
                /\ \A i \in 1..Len(sessions) :
                      Lasting(sessions[i], now) => Has(r.file, sessions[i])
          /\ \A r \in {SimpleCol_count_documents("sessions.json", sessions, now, filt)} :
                /\ r.ret <= Cardinality(Current(filt)) /\ NoPast(r.file, now)
                /\ \A i \in 1..Len(sessions) :
                      Lasting(sessions[i], now) => Has(r.file, sessions[i])
          /\ \A r \in {SimpleCol_delete_many("sessions.json", sessions, now, filt)} :
                /\ r.ret <= Cardinality(Current(filt)) /\ NoPast(r.file, now)
                /\ \A i \in 1..Len(sessions) :
                      (Lasting(sessions[i], now) /\ ~Fits(sessions[i], filt)) =>
                          Has(r.file, sessions[i])
          /\ \A r \in {SimpleCol_update_one("sessions.json", sessions, now, filt,
                                            [created_by |-> 2], FALSE)} :
                /\ NoPast(r.file, now)
                /\ Cardinality({i \in 1..Len(r.file) : Lasting(r.file[i], now)})
                      = Cardinality({i \in 1..Len(sessions) : Lasting(sessions[i], now)})
    /\ \A conds \in SessionConds :
          \A r \in {SimpleCol_update_many("sessions.json", sessions, now, conds,
                                          [created_by |-> 2])} :
              /\ NoPast(r.file, now)
              /\ Cardinality({i \in 1..Len(r.file) : Lasting(r.file[i], now)})
                    = Cardinality({i \in 1..Len(sessions) : Lasting(sessions[i], now)})
    /\ \A doc \in SessionDocs :
          \A r \in {SimpleCol_insert_one("sessions.json", sessions, now, doc)} :
              /\ NoPast(SubSeq(r.file, 1, Len(r.file) - 1), now)
              /\ \A i \in 1..Len(sessions) :
                    Lasting(sessions[i], now) => Has(r.file, sessions[i])

(* ------------------------------- C35 ------------------------------------ *)
\* What the document database holds for the documents of a file: every
\* date text is the datetime it was written from.
AsDatetimes(data) ==
    [i \in 1..Len(data) |->
        [k \in DOMAIN data[i] |->
            IF k \in DateKeys /\ IsStr(data[i][k]) THEN Minute(data[i][k]) ELSE data[i][k]]]

\* C35: clear_expired_tokens on the file-backed users collection does what
\* it does on the document database: it nulls reset_token and
\* token_expiry of every user whose token_expiry has passed and leaves the
\* file holding what the document database would hold.
C35_SweepSameOnFile ==
    \A c \in {ClearResult_OnFile(users, now)} :
        /\ \A i \in UserIdx :
              (users[i].token_expiry # None /\ Minute(users[i].token_expiry) < now) =>
                  c.users[i].reset_token = None /\ c.users[i].token_expiry = None
        /\ AsDatetimes(c.users) = ClearResult(AsDatetimes(users), now).users

(* ------------------------------- C36 ------------------------------------ *)
\* C36: once authenticate_user has written a lockout_until, or
\* generate_reset_token a token_expiry, through the file-backed store, the
\* next authenticate_user (any password), respectively
\* validate_reset_token, on that user returns what it returns on the
\* document database holding the same documents.
C36_TimedStateRoundTrip ==
    \A i \in UserIdx :
        /\ users[i].lockout_until # None =>
              \A p \in Passwords \cup {PwNone} :
                  AuthResult_OnFile(users, now, users[i].username, p).ret
                      = AuthResult(AsDatetimes(users), now, users[i].username, p).ret
        /\ users[i].token_expiry # None =>
              ValidateResult_OnFile(users, now, users[i].reset_token).ret
                  = ValidateResult(AsDatetimes(users), now, users[i].reset_token).ret
====
